---- MODULE Spec2Model ----
(***************************************************************************)
(* Model of the Word-HTML to reStructuredText converter: the heading        *)
(* formatter, the custom-directive grammar and generator, the list          *)
(* reconstructor and post-processor, and the grid-table renderer.           *)
(*                                                                          *)
(* Strings are sequences of one-character strings, so that length, trim,    *)
(* split, join and prefix tests are computed as the code computes them.     *)
(***************************************************************************)
EXTENDS Integers, Sequences, FiniteSets, TLC

VARIABLES
    pc,          \* position of the component under study
    heading,     \* HeadingElement being formatted: [level, text]
    options,     \* FormatterOptions: [titleOverline, indentSize]
    formatted,   \* string returned by formatHeading
    styleName,   \* parseCustomDirective: Word style name of the block
    content,     \* parseCustomDirective: flattened text of the block
    lines,       \* parseCustomDirective: content.split('\n')
    i,           \* parseCustomDirective: loop index (1-based)
    argument,    \* parseCustomDirective: [defined, value]
    dopts,       \* parseCustomDirective: options Map, in insertion order
    bodyLines,   \* parseCustomDirective: body lines collected so far
    inBody,      \* parseCustomDirective: the body has started
    directive,   \* CustomDirective returned by parseCustomDirective
    rendered,    \* string returned by generateCustomDirective
    blocks,      \* parseWordHtml: the block elements of the document body
    elements,    \* parseWordHtml: the parsed elements, before post-processing
    pi,          \* postProcessElements: loop index (1-based)
    result,      \* postProcessElements: the result array
    tableData,   \* generateTableDirective: TableData [rows, options]
    columnWidths,\* generateGridTable: the column widths it computed
    grid,        \* string returned by generateGridTable
    elem,        \* formatElement: the document element being formatted
    elemText,    \* string returned by formatElement
    api,         \* the entry point called: convertToRst or convertToRstAsync
    copts,       \* ConversionOptions: [includeMetadata, addGeneratedComment]
    metadata,    \* DocumentMetadata of the document: [title]
    images,      \* parseWordHtml: the images array
    conversion,  \* ConversionResult returned: [rst, images, warnings]
    node,        \* parseElement: the HTML block element being classified
    kind,        \* parseElement: the branch taken and what it returned
    isLoading,   \* taskpane: the isLoading flag
    refreshes,   \* taskpane: the executions of handleRefresh, in call order
    ui,          \* taskpane: what showState last set
    pane,        \* taskpane: status bar, preview and error texts
    currentRst,  \* taskpane: the RST of the last successful conversion
    invocations  \* commands: the ribbon command invocations, in call order

hvars == <<heading, options, formatted>>
pvars == <<blocks, elements, pi, result>>
tvars == <<tableData, columnWidths, grid>>
cvars == <<api, copts, metadata, images, conversion>>
nvars == <<node, kind>>
rvars == <<isLoading, refreshes, ui, pane, currentRst>>
kvars == <<invocations>>
uvars == <<rvars, kvars>>
xvars == <<elem, elemText, cvars, nvars, uvars>>
dvars == <<styleName, content, lines, i, argument, dopts, bodyLines, inBody,
           directive, rendered>>

(***************************************************************************)
(* Bounds                                                                   *)
(***************************************************************************)
MaxTextLen == 3
MaxLines == 4
MaxItems == 5
MaxBlocks == 3
MaxRows == 2
MaxCols == 2
MaxCells == 4

(***************************************************************************)
(* String helpers (String.prototype methods used by the code)               *)
(***************************************************************************)
NL == "\n"
SP == " "
TAB == "\t"

\* Characters String.prototype.trim() and \s treat as white space
IsWS(c) == c \in {SP, NL, TAB}

\* String.prototype.repeat
Repeat(c, n) == [k \in 1..n |-> c]

RECURSIVE Join(_, _)
\* Array.prototype.join
Join(parts, sep) ==
    IF Len(parts) = 0 THEN <<>>
    ELSE IF Len(parts) = 1 THEN parts[1]
    ELSE parts[1] \o sep \o Join(Tail(parts), sep)

\* String.prototype.split on a one-character separator: the pieces between
\* the occurrences of c
Split(s, c) ==
    LET seps == {k \in 1..Len(s) : s[k] = c}
        n == Cardinality(seps)
        pos(j) == CHOOSE p \in seps : Cardinality({q \in seps : q < p}) = j - 1
        first(j) == IF j = 1 THEN 1 ELSE pos(j - 1) + 1
        last(j) == IF j = n + 1 THEN Len(s) ELSE pos(j) - 1
    IN  [j \in 1..(n + 1) |-> SubSeq(s, first(j), last(j))]

RECURSIVE TrimStart(_)
TrimStart(s) ==
    IF Len(s) > 0 /\ IsWS(Head(s)) THEN TrimStart(Tail(s)) ELSE s

RECURSIVE TrimEnd(_)
TrimEnd(s) ==
    IF Len(s) > 0 /\ IsWS(s[Len(s)]) THEN TrimEnd(SubSeq(s, 1, Len(s) - 1)) ELSE s

\* String.prototype.trim
Trim(s) == TrimEnd(TrimStart(s))

\* String.prototype.startsWith
StartsWith(s, p) == Len(s) >= Len(p) /\ SubSeq(s, 1, Len(p)) = p

\* String.prototype.endsWith
EndsWith(s, p) == Len(s) >= Len(p) /\ SubSeq(s, Len(s) - Len(p) + 1, Len(s)) = p

Min(a, b) == IF a <= b THEN a ELSE b
Max(a, b) == IF a >= b THEN a ELSE b

\* All sequences over S of length 0..n
SeqsUpTo(S, n) == UNION {[1..k -> S] : k \in 0..n}

(***************************************************************************)
(* rst-formatter.ts: headings                                               *)
(***************************************************************************)
HEADING_CHARS == <<"=", "-", "~", "^", "\"", "'">>

DEFAULT_OPTIONS == [lineWidth |-> 0, titleOverline |-> TRUE, indentSize |-> 3]

\* getTextWidth: the number of UTF-16 units of the text
getTextWidth(text) == Len(text)

\* parseHeadingElement clamps the detected level into 1..6
ClampLevel(level) == Min(Max(level, 1), 6)

\* formatHeadingLines with the level test of the overline left out
formatHeadingLines_OverlineAnyLevel(element, opts) ==
    LET charIndex == Min(element.level - 1, Len(HEADING_CHARS) - 1)
        underlineChar == HEADING_CHARS[charIndex + 1]
        underline == Repeat(underlineChar, getTextWidth(element.text))
    IN  (IF opts.titleOverline THEN <<underline>> ELSE <<>>)
        \o <<element.text, underline>>

\* formatHeading, as the list of lines it pushes
formatHeadingLines(element, opts) ==
    LET charIndex == Min(element.level - 1, Len(HEADING_CHARS) - 1)
        underlineChar == HEADING_CHARS[charIndex + 1]
        underline == Repeat(underlineChar, getTextWidth(element.text))
    IN  (IF element.level = 1 /\ opts.titleOverline THEN <<underline>> ELSE <<>>)
        \o <<element.text, underline>>

\* formatHeading: lines.join('\n')
formatHeading(element, opts) == Join(formatHeadingLines(element, opts), <<NL>>)

(***************************************************************************)
(* directives/custom.ts: the custom-directive grammar                       *)
(***************************************************************************)
LowerLetters == {"a", "b", "c", "d", "e", "f", "g", "h", "i", "j", "k", "l", "m",
                 "n", "o", "p", "q", "r", "s", "t", "u", "v", "w", "x", "y", "z"}
UpperLetters == {"A", "B", "C", "D", "E", "F", "G", "H", "I", "J", "K", "L", "M",
                 "N", "O", "P", "Q", "R", "S", "T", "U", "V", "W", "X", "Y", "Z"}
Digits == {"0", "1", "2", "3", "4", "5", "6", "7", "8", "9"}

\* [a-zA-Z]
IsLetter(c) == c \in LowerLetters \cup UpperLetters
\* [\w-]
IsNameChar(c) == IsLetter(c) \/ c \in Digits \/ c \in {"_", "-"}

RST_STYLE_PREFIX == <<"r", "s", "t", "_">>
INDENT == <<SP, SP, SP>>

\* String.prototype.substring(start) with a 0-based start
SubstringFrom(s, start) == SubSeq(s, start + 1, Len(s))

\* extractDirectiveName: styleName.substring(RST_STYLE_PREFIX.length)
extractDirectiveName(style) == SubstringFrom(style, Len(RST_STYLE_PREFIX))

\* isArgumentLine: line.startsWith('[') && line.endsWith(']')
isArgumentLine(line) == StartsWith(line, <<"[">>) /\ EndsWith(line, <<"]">>)

\* extractArgument: line.slice(1, -1).trim()
extractArgument(line) == Trim(SubSeq(line, 2, Len(line) - 1))

RECURSIVE NameEnd(_, _)
\* index of the last character of the maximal [\w-]* run that starts at k
NameEnd(line, k) ==
    IF k <= Len(line) /\ IsNameChar(line[k]) THEN NameEnd(line, k + 1) ELSE k - 1

\* isOptionLine: /^:[a-zA-Z][\w-]*:/.test(line)
isOptionLine(line) ==
    /\ Len(line) >= 3
    /\ line[1] = ":"
    /\ IsLetter(line[2])
    /\ LET e == NameEnd(line, 3) IN e + 1 <= Len(line) /\ line[e + 1] = ":"

\* parseOptionLine: /^:([a-zA-Z][\w-]*):\s*(.*)$/ with the value trimmed;
\* matched is FALSE where the code returns null
parseOptionLine(line) ==
    IF isOptionLine(line)
    THEN LET e == NameEnd(line, 3)
         IN  [matched |-> TRUE,
              name |-> SubSeq(line, 2, e),
              value |-> Trim(TrimStart(SubSeq(line, e + 2, Len(line))))]
    ELSE [matched |-> FALSE, name |-> <<>>, value |-> <<>>]

\* Map.prototype.set: a new key is appended, an existing key keeps its place
MapSet(m, name, value) ==
    IF \E k \in 1..Len(m) : m[k].name = name
    THEN [k \in 1..Len(m) |->
            IF m[k].name = name THEN [name |-> name, value |-> value] ELSE m[k]]
    ELSE Append(m, [name |-> name, value |-> value])

\* !argument: undefined and '' are both falsy
ArgumentFalsy(arg) == ~arg.defined \/ arg.value = <<>>

\* parseLineBody with the option test not guarded by !inBody
parseLineBody_OptionInBody(arg, opts, body, inb, line) ==
    LET trimmedLine == Trim(line)
        same == [argument |-> arg, options |-> opts, bodyLines |-> body, inBody |-> inb]
    IN  IF ~inb /\ trimmedLine = <<>>
        THEN same
        ELSE IF ~inb /\ ArgumentFalsy(arg) /\ isArgumentLine(trimmedLine)
        THEN [same EXCEPT !.argument =
                 [defined |-> TRUE, value |-> extractArgument(trimmedLine)]]
        ELSE IF isOptionLine(trimmedLine)
        THEN LET parsed == parseOptionLine(trimmedLine)
             IN  [same EXCEPT !.options = MapSet(opts, parsed.name, parsed.value)]
        ELSE [same EXCEPT !.inBody = TRUE, !.bodyLines = Append(body, line)]

\* parseCustomDirective, body of the for loop: the locals after one line
parseLineBody(arg, opts, body, inb, line) ==
    LET trimmedLine == Trim(line)
        same == [argument |-> arg, options |-> opts, bodyLines |-> body, inBody |-> inb]
    IN  IF ~inb /\ trimmedLine = <<>>
        THEN same
        ELSE IF ~inb /\ ArgumentFalsy(arg) /\ isArgumentLine(trimmedLine)
        THEN [same EXCEPT !.argument =
                 [defined |-> TRUE, value |-> extractArgument(trimmedLine)]]
        ELSE IF ~inb /\ isOptionLine(trimmedLine)
        THEN LET parsed == parseOptionLine(trimmedLine)
             IN  IF parsed.matched
                 THEN [same EXCEPT !.options = MapSet(opts, parsed.name, parsed.value)]
                 ELSE same
        ELSE [same EXCEPT !.inBody = TRUE, !.bodyLines = Append(body, line)]

RECURSIVE DropLeadingBlank(_)
DropLeadingBlank(ls) ==
    IF Len(ls) > 0 /\ Trim(ls[1]) = <<>> THEN DropLeadingBlank(Tail(ls)) ELSE ls

RECURSIVE DropTrailingBlank(_)
DropTrailingBlank(ls) ==
    IF Len(ls) > 0 /\ Trim(ls[Len(ls)]) = <<>>
    THEN DropTrailingBlank(SubSeq(ls, 1, Len(ls) - 1)) ELSE ls

\* trimBodyContent: shift leading and pop trailing blank lines, then join
trimBodyContent(ls) == Join(DropTrailingBlank(DropLeadingBlank(ls)), <<NL>>)

\* generateCustomDirectiveLines with the options emitted in reverse order
generateCustomDirectiveLines_Reversed(d) ==
    LET decl == IF ~ArgumentFalsy(d.argument)
                THEN <<".", ".", SP>> \o d.name \o <<":", ":", SP>> \o d.argument.value
                ELSE <<".", ".", SP>> \o d.name \o <<":", ":">>
        optLine(o) == IF o.value # <<>>
                      THEN INDENT \o <<":">> \o o.name \o <<":", SP>> \o o.value
                      ELSE INDENT \o <<":">> \o o.name \o <<":">>
        n == Len(d.options)
        optLines == [k \in 1..n |-> optLine(d.options[n + 1 - k])]
        contentLines == Split(d.content, NL)
        body == IF d.content # <<>>
                THEN <<<<>>>> \o [k \in 1..Len(contentLines) |->
                        IF contentLines[k] # <<>> THEN INDENT \o contentLines[k]
                        ELSE <<>>]
                ELSE <<>>
    IN  <<decl>> \o optLines \o body

\* generateCustomDirective, as the list of lines it pushes
generateCustomDirectiveLines(d) ==
    LET decl == IF ~ArgumentFalsy(d.argument)
                THEN <<".", ".", SP>> \o d.name \o <<":", ":", SP>> \o d.argument.value
                ELSE <<".", ".", SP>> \o d.name \o <<":", ":">>
        optLine(o) == IF o.value # <<>>
                      THEN INDENT \o <<":">> \o o.name \o <<":", SP>> \o o.value
                      ELSE INDENT \o <<":">> \o o.name \o <<":">>
        optLines == [k \in 1..Len(d.options) |-> optLine(d.options[k])]
        contentLines == Split(d.content, NL)
        body == IF d.content # <<>>
                THEN <<<<>>>> \o [k \in 1..Len(contentLines) |->
                        IF contentLines[k] # <<>> THEN INDENT \o contentLines[k]
                        ELSE <<>>]
                ELSE <<>>
    IN  <<decl>> \o optLines \o body

\* generateCustomDirective: lines.join('\n')
generateCustomDirective(d) == Join(generateCustomDirectiveLines(d), <<NL>>)

(***************************************************************************)
(* html-parser.ts: Word list paragraphs and the list reconstructor          *)
(*                                                                          *)
(* An optional field (nestedList?, indentLevel?, margin-left) is a sequence *)
(* of length 0 (absent) or 1 (present).                                     *)
(***************************************************************************)
\* extractIndentLevel: margin is the margin-left declaration, absent or
\* [n, unit] with n in hundredths of the unit; Math.round(x) is floor(x + 1/2)
\* and (inches - 0.5) / 0.5 is 2 * inches - 1
extractIndentLevel(margin) ==
    IF margin = <<>> THEN 0
    ELSE LET n == margin[1].n
             unit == margin[1].unit
             level == IF unit = "pt" THEN (2 * n - 3600) \div 7200
                      ELSE IF unit = "cm" THEN (4 * n - 254) \div 508
                      ELSE (2 * n - 50) \div 100
         IN  Max(0, level)

\* U+00B7, the bullet Word writes in the Symbol font (ASCII stand-in)
MIDDOT == "@"
\* [\s·•◦▪▸►§o\-\*]
BulletChars == {SP, NL, TAB, MIDDOT, "o", "-", "*"}
RomanChars == {"i", "v", "x", "l", "c", "d", "m", "I", "V", "X", "L", "C", "D", "M"}

RECURSIVE RunEnd(_, _, _)
\* index of the last character of the maximal run of characters of set cs
\* that starts at k (k - 1 if the run is empty)
RunEnd(s, k, cs) ==
    IF k <= Len(s) /\ s[k] \in cs THEN RunEnd(s, k + 1, cs) ELSE k - 1

\* /^\s*(\d+|[a-z]|[ivxlcdm]+)[.\)]/i: index of the [.\)] character, 0 if the
\* text does not start with a number, letter or roman marker
MarkerEnd(s) ==
    LET b == RunEnd(s, 1, {SP, NL, TAB}) + 1
        closes(k) == k <= Len(s) /\ s[k] \in {".", ")"}
        d == RunEnd(s, b, Digits)
        r == RunEnd(s, b, RomanChars)
    IN  IF d >= b /\ closes(d + 1) THEN d + 1
        ELSE IF b <= Len(s) /\ IsLetter(s[b]) /\ closes(b + 1) THEN b + 1
        ELSE IF r >= b /\ closes(r + 1) THEN r + 1
        ELSE 0

\* detectListType: a marker followed by white space is an ordered item,
\* anything else is unordered
detectListType(fullText) ==
    LET e == MarkerEnd(fullText)
    IN  IF e > 0 /\ e + 1 <= Len(fullText) /\ IsWS(fullText[e + 1])
        THEN "ordered" ELSE "unordered"

RECURSIVE NormalizeWS(_)
\* replace(/\s+/g, ' ')
NormalizeWS(s) ==
    IF Len(s) = 0 THEN <<>>
    ELSE IF IsWS(Head(s))
    THEN <<SP>> \o NormalizeWS(SubSeq(s, RunEnd(s, 1, {SP, NL, TAB}) + 1, Len(s)))
    ELSE <<Head(s)>> \o NormalizeWS(Tail(s))

\* the clean-up of the item content in parseWordListItem: leading bullets,
\* then a leading number/letter/roman marker, then white space
CleanItemContent(raw) ==
    LET a == SubSeq(raw, RunEnd(raw, 1, BulletChars) + 1, Len(raw))
        e == MarkerEnd(a)
        b == IF e > 0
             THEN SubSeq(a, RunEnd(a, e + 1, {SP, NL, TAB}) + 1, Len(a))
             ELSE a
    IN  Trim(NormalizeWS(b))

\* parseWordListItem: a single-item list carrying the indent level; the
\* marker span is skipped when it is set in a symbol font
parseWordListItem(block) ==
    LET fullText == block.marker \o block.text
        raw == IF block.symbolFont THEN block.text ELSE fullText
    IN  [type |-> "list",
         listType |-> detectListType(fullText),
         items |-> << [content |-> CleanItemContent(raw),
                       nestedList |-> <<>>,
                       indentLevel |-> <<extractIndentLevel(block.margin)>>] >>]

\* a new nested list: { type: 'list', listType: itemListType, items: [] }
NewList(itemListType) == [type |-> "list", listType |-> itemListType, items |-> <<>>]

\* lastItem.nestedList, created if absent
NestedOrNew(item, itemListType) ==
    IF item.nestedList = <<>> THEN NewList(itemListType) ELSE item.nestedList[1]

\* list.items.push(item)
PushItem(list, item) == [list EXCEPT !.items = Append(@, item)]

\* the last item of list gets nested as its nested list
WithNested(list, nested) ==
    [list EXCEPT !.items[Len(list.items)].nestedList = <<nested>>]

\* the test of the while loop that is never true
IsInsertionLevel_Never(currentIndent, targetIndent) == FALSE

\* currentIndent + 1 === targetIndent: the item belongs in the nested list of
\* the last item of the current list
IsInsertionLevel(currentIndent, targetIndent) == currentIndent + 1 = targetIndent

RECURSIVE Descend(_, _, _, _, _)
\* addItemToList, the while loop entered with currentList and currentIndent
Descend(currentList, newItem, currentIndent, targetIndent, itemListType) ==
    IF Len(currentList.items) = 0
    THEN PushItem(currentList, newItem)
    ELSE LET lastItem == currentList.items[Len(currentList.items)]
             nested == NestedOrNew(lastItem, itemListType)
         IN  IF IsInsertionLevel(currentIndent, targetIndent)
             THEN WithNested(currentList, PushItem(nested, newItem))
             ELSE WithNested(currentList,
                     Descend(nested, newItem, currentIndent + 1, targetIndent,
                             itemListType))

\* the item with its indentLevel kept
DeleteIndentLevel_Kept(item) == item

\* delete newItem.indentLevel
DeleteIndentLevel(item) == [item EXCEPT !.indentLevel = <<>>]

\* addItemToList with the indent level ignored: every item of the root's type
\* becomes a sibling at the root
addItemToList_Flat(rootList, item, targetIndent, itemListType) ==
    LET newItem == DeleteIndentLevel(item)
    IN  IF rootList.listType = itemListType
        THEN PushItem(rootList, newItem)
        ELSE Descend(rootList, newItem, 0, 1, itemListType)

\* addItemToList: the root list after the insertion
addItemToList(rootList, item, targetIndent, itemListType) ==
    LET newItem == DeleteIndentLevel(item)
    IN  IF targetIndent = 0
        THEN IF rootList.listType = itemListType
             THEN PushItem(rootList, newItem)
             ELSE IF Len(rootList.items) > 0
             THEN WithNested(rootList,
                     PushItem(NestedOrNew(rootList.items[Len(rootList.items)],
                                          itemListType), newItem))
             ELSE rootList
        ELSE Descend(rootList, newItem, 0, targetIndent, itemListType)

(***************************************************************************)
(* directives/custom.ts: the grid-table renderer                            *)
(***************************************************************************)
\* default minWidth and maxWidth of calculateColumnWidths
MinWidth == 3
MaxWidth == 40

RECURSIVE MaxOf(_, _)
\* Math.max(...values, floor)
MaxOf(values, floor) ==
    IF Len(values) = 0 THEN floor ELSE Max(Head(values), MaxOf(Tail(values), floor))

\* the lengths of the strings of a list
Lengths(ls) == [k \in 1..Len(ls) |-> Len(ls[k])]

\* getContentWidth: the longest line of the content as split at '\n', at least 1
getContentWidth(text) == MaxOf(Lengths(Split(text, NL)), 1)

\* the contents of the cells of column c, over the rows that have one
ColumnContents(rows, c) ==
    LET rs == SelectSeq(rows, LAMBDA r : Len(r.cells) >= c)
    IN  [k \in 1..Len(rs) |-> rs[k].cells[c].content]

\* calculateColumnWidths with the maxWidth limit left out
calculateColumnWidths_NoCap(rows) ==
    IF Len(rows) = 0 THEN <<>>
    ELSE LET numColumns == MaxOf([k \in 1..Len(rows) |-> Len(rows[k].cells)], 0)
         IN  <<>> \o [c \in 1..numColumns |->
                 LET cs == ColumnContents(rows, c)
                 IN  MaxOf([k \in 1..Len(cs) |-> getContentWidth(cs[k])], MinWidth)]

\* calculateColumnWidths; the widths array is built once (<<>> \o) and then
\* indexed
calculateColumnWidths(rows) ==
    IF Len(rows) = 0 THEN <<>>
    ELSE LET numColumns == MaxOf([k \in 1..Len(rows) |-> Len(rows[k].cells)], 0)
         IN  <<>> \o [c \in 1..numColumns |->
                 LET cs == ColumnContents(rows, c)
                 IN  Min(MaxOf([k \in 1..Len(cs) |-> getContentWidth(cs[k])], MinWidth),
                         MaxWidth)]

\* generateSeparator
generateSeparator(widths, ch) ==
    <<"+">> \o Join([c \in 1..Len(widths) |-> Repeat(ch, widths[c] + 2)], <<"+">>)
    \o <<"+">>

RECURSIVE WrapWords(_, _, _)
\* wrapText, the loop over the words of a paragraph with currentLine cur
WrapWords(words, cur, width) ==
    IF Len(words) = 0 THEN (IF cur # <<>> THEN <<cur>> ELSE <<>>)
    ELSE LET word == Head(words)
         IN  IF Len(cur) = 0 THEN WrapWords(Tail(words), word, width)
             ELSE IF Len(cur) + 1 + Len(word) <= width
             THEN WrapWords(Tail(words), cur \o <<SP>> \o word, width)
             ELSE <<cur>> \o WrapWords(Tail(words), word, width)

RECURSIVE WrapParagraphs(_, _)
WrapParagraphs(paragraphs, width) ==
    IF Len(paragraphs) = 0 THEN <<>>
    ELSE (IF Len(Head(paragraphs)) <= width THEN <<Head(paragraphs)>>
          ELSE WrapWords(Split(Head(paragraphs), SP), <<>>, width))
         \o WrapParagraphs(Tail(paragraphs), width)

\* wrapText of the table renderer: the wrapped lines
wrapText(text, width) ==
    IF text = <<>> THEN << <<>> >>
    ELSE LET r == WrapParagraphs(Split(text, NL), width)
         IN  IF Len(r) > 0 THEN r ELSE << <<>> >>

\* padCell with over-long text left as it is
padCell_NoTruncate(text, width, align) ==
    IF Len(text) >= width THEN text
    ELSE text \o Repeat(SP, width - Len(text))

\* padCell
padCell(text, width, align) ==
    IF Len(text) >= width THEN SubSeq(text, 1, width)
    ELSE LET padding == width - Len(text)
             leftPad == padding \div 2
         IN  IF align = "right" THEN Repeat(SP, padding) \o text
             ELSE IF align = "center"
             THEN Repeat(SP, leftPad) \o text \o Repeat(SP, padding - leftPad)
             ELSE text \o Repeat(SP, padding)

\* columnWidths[colIndex] || 10
WidthOr10(widths, c) == IF c > Len(widths) \/ widths[c] = 0 THEN 10 ELSE widths[c]

\* generateRowLines
generateRowLines(row, widths, numColumns) ==
    LET hasCell(c) == c <= Len(row.cells)
        cellLines == <<>> \o [c \in 1..numColumns |->
                        IF hasCell(c) THEN wrapText(row.cells[c].content, WidthOr10(widths, c))
                        ELSE << <<>> >>]
        maxLines == MaxOf([c \in 1..numColumns |-> Len(cellLines[c])], 1)
        lineContent(c, k) == IF k <= Len(cellLines[c]) THEN cellLines[c][k] ELSE <<>>
        align(c) == IF hasCell(c) /\ row.cells[c].align # "" THEN row.cells[c].align
                    ELSE "left"
        segment(c, k) == <<SP>> \o padCell(lineContent(c, k), WidthOr10(widths, c), align(c))
                         \o <<SP>>
    IN  [k \in 1..maxLines |->
            <<"|">> \o Join([c \in 1..numColumns |-> segment(c, k)], <<"|">>) \o <<"|">>]

\* row.isHeader || (hasHeader && rowIndex === 0)
IsHeaderRow(rows, hasHeader, r) == rows[r].isHeader \/ (hasHeader /\ r = 1)

RECURSIVE GridRowsFrom(_, _, _, _)
\* generateGridTable, the loop over the rows from row r
GridRowsFrom(rows, hasHeader, widths, r) ==
    IF r > Len(rows) THEN <<>>
    ELSE generateRowLines(rows[r], widths, Len(widths))
         \o << generateSeparator(widths, IF IsHeaderRow(rows, hasHeader, r) THEN "=" ELSE "-") >>
         \o GridRowsFrom(rows, hasHeader, widths, r + 1)

\* generateGridTable
generateGridTable(rows, hasHeader) ==
    IF Len(rows) = 0 THEN <<>>
    ELSE LET widths == calculateColumnWidths(rows)
         IN  Join(<< generateSeparator(widths, "-") >>
                  \o GridRowsFrom(rows, hasHeader, widths, 1),
                  <<NL>>)

(***************************************************************************)
(* Caption grammar (parseCaption)                                           *)
(***************************************************************************)
LowerOf ==
    "A" :> "a" @@ "B" :> "b" @@ "C" :> "c" @@ "D" :> "d" @@ "E" :> "e" @@ "F" :> "f" @@ "G" :> "g" @@ "H" :> "h" @@ "I" :> "i" @@ "J" :> "j" @@ "K" :> "k" @@ "L" :> "l" @@ "M" :> "m" @@
    "N" :> "n" @@ "O" :> "o" @@ "P" :> "p" @@ "Q" :> "q" @@ "R" :> "r" @@ "S" :> "s" @@ "T" :> "t" @@ "U" :> "u" @@ "V" :> "v" @@ "W" :> "w" @@ "X" :> "x" @@ "Y" :> "y" @@ "Z" :> "z"

ToLowerChar(c) == IF c \in UpperLetters THEN LowerOf[c] ELSE c
\* String.prototype.toLowerCase
ToLower(s) == [k \in 1..Len(s) |-> ToLowerChar(s[k])]

\* String.prototype.includes
Includes(s, sub) ==
    \E k \in 0..(Len(s) - Len(sub)) : SubSeq(s, k + 1, k + Len(sub)) = sub

WSChars == {SP, NL, TAB}

\* CAPTION_PATTERNS but the last: the alternatives of each pattern in regex
\* order, each a lower-case word and whether an optional '.' follows it
CAPTION_PATTERNS ==
    << [type |-> "Figure",   alts |-> << [word |-> <<"f", "i", "g", "u", "r", "e">>, dot |-> FALSE],
                                         [word |-> <<"f", "i", "g">>, dot |-> TRUE] >>],
       [type |-> "Table",    alts |-> << [word |-> <<"t", "a", "b", "l", "e">>, dot |-> FALSE],
                                         [word |-> <<"t", "b", "l">>, dot |-> TRUE] >>],
       [type |-> "Listing",  alts |-> << [word |-> <<"l", "i", "s", "t", "i", "n", "g">>, dot |-> FALSE],
                                         [word |-> <<"l", "i", "s", "t">>, dot |-> TRUE],
                                         [word |-> <<"c", "o", "d", "e">>, dot |-> FALSE] >>],
       [type |-> "Equation", alts |-> << [word |-> <<"e", "q", "u", "a", "t", "i", "o", "n">>, dot |-> FALSE],
                                         [word |-> <<"e", "q">>, dot |-> TRUE] >>],
       [type |-> "Example",  alts |-> << [word |-> <<"e", "x", "a", "m", "p", "l", "e">>, dot |-> FALSE],
                                         [word |-> <<"e", "x">>, dot |-> TRUE] >>],
       [type |-> "Chart",    alts |-> << [word |-> <<"c", "h", "a", "r", "t">>, dot |-> FALSE] >>],
       [type |-> "Diagram",  alts |-> << [word |-> <<"d", "i", "a", "g", "r", "a", "m">>, dot |-> FALSE] >> ] >>

\* /^word\.?\s+/i for one alternative: the length of the match, 0 if none
AltMatch(s, alt) ==
    LET w == Len(alt.word)
        wsAfter(k) == RunEnd(s, k + 1, WSChars)   \* end of the \s+ run after k
    IN  IF ~StartsWith(ToLower(s), alt.word) THEN 0
        ELSE IF alt.dot /\ w + 1 <= Len(s) /\ s[w + 1] = "." /\ wsAfter(w + 1) > w + 1
        THEN wsAfter(w + 1)
        ELSE IF wsAfter(w) > w THEN wsAfter(w)
        ELSE 0

RECURSIVE AltsMatch(_, _, _)
\* the first alternative, in order, that matches
AltsMatch(s, alts, k) ==
    IF k > Len(alts) THEN 0
    ELSE IF AltMatch(s, alts[k]) > 0 THEN AltMatch(s, alts[k])
    ELSE AltsMatch(s, alts, k + 1)

RECURSIVE NumberEnd(_, _)
\* /^\d+(?:\.\d+)*/ from index k: index of its last character, k - 1 if none
NumberEnd(s, k) ==
    LET d == RunEnd(s, k, Digits)
    IN  IF d < k THEN k - 1
        ELSE IF d + 2 <= Len(s) /\ s[d + 1] = "." /\ s[d + 2] \in Digits
        THEN NumberEnd(s, d + 2)
        ELSE d

\* the separators /^\s*[:.-]\s*/ strips (the en and em dash are left out)
SeparatorChars == {":", ".", "-"}

\* the text after the number: an optional separator stripped, then trimmed
CaptionText(rest) ==
    LET a == RunEnd(rest, 1, WSChars) + 1
    IN  IF a <= Len(rest) /\ rest[a] \in SeparatorChars
        THEN Trim(SubSeq(rest, RunEnd(rest, a + 1, WSChars) + 1, Len(rest)))
        ELSE Trim(rest)

NoCaption == [matched |-> FALSE, type |-> "", number |-> <<>>, text |-> <<>>]

RECURSIVE LastDot(_, _)
\* index of the last '.' of s at or before k, 0 if there is none
LastDot(s, k) == IF k < 1 THEN 0 ELSE IF s[k] = "." THEN k ELSE LastDot(s, k - 1)

\* the generic numbered pattern /^(\d+(?:\.\d+)*)\s*[:.]\s*/: the end of the
\* number and the end of the match, both 0 if there is no match; the number
\* gives back its last '.digits' group when no separator follows it
ItemMatch(s) ==
    LET n == NumberEnd(s, 1)
        a == RunEnd(s, n + 1, WSChars) + 1
        p == LastDot(s, n)
    IN  IF n < 1 THEN [num |-> 0, end |-> 0]
        ELSE IF a <= Len(s) /\ s[a] \in {":", "."}
        THEN [num |-> n, end |-> RunEnd(s, a + 1, WSChars)]
        ELSE IF p > 0 THEN [num |-> p - 1, end |-> p]
        ELSE [num |-> 0, end |-> 0]

\* the number and the text of the remainder that follows a matched prefix
NumberAndText(remainder) ==
    LET n == NumberEnd(remainder, 1)
    IN  [number |-> SubSeq(remainder, 1, n),
         text |-> CaptionText(SubSeq(remainder, n + 1, Len(remainder)))]

RECURSIVE ParseCaptionFrom(_, _)
\* the loop over CAPTION_PATTERNS from pattern k, then the simple numbered form
ParseCaptionFrom(trimmed, k) ==
    IF k > Len(CAPTION_PATTERNS)
    THEN LET im == ItemMatch(trimmed)
             n == NumberEnd(trimmed, 1)
             a == RunEnd(trimmed, n + 1, WSChars) + 1
         IN  IF im.end > 0
             THEN [matched |-> TRUE, type |-> "Item",
                   number |-> SubSeq(trimmed, 1, im.num),
                   text |-> NumberAndText(SubSeq(trimmed, im.end + 1, Len(trimmed))).text]
             ELSE IF n >= 1 /\ a <= Len(trimmed) /\ trimmed[a] = "-"
             THEN [matched |-> TRUE, type |-> "Item",
                   number |-> SubSeq(trimmed, 1, n),
                   text |-> Trim(SubSeq(trimmed, a + 1, Len(trimmed)))]
             ELSE NoCaption
    ELSE LET m == AltsMatch(trimmed, CAPTION_PATTERNS[k].alts, 1)
             nt == NumberAndText(SubSeq(trimmed, m + 1, Len(trimmed)))
         IN  IF m > 0
             THEN [matched |-> TRUE, type |-> CAPTION_PATTERNS[k].type,
                   number |-> nt.number, text |-> nt.text]
             ELSE ParseCaptionFrom(trimmed, k + 1)

\* parseCaption: matched is FALSE where the code returns null
parseCaption(caption) ==
    LET trimmed == Trim(caption)
    IN  IF trimmed = <<>> THEN NoCaption ELSE ParseCaptionFrom(trimmed, 1)

\* looksLikeCaption: some pattern of CAPTION_PATTERNS matches the trimmed
\* text, or it starts with a number followed by a separator
looksLikeCaption(text) ==
    LET trimmed == Trim(text)
        n == NumberEnd(trimmed, 1)
        a == RunEnd(trimmed, n + 1, WSChars) + 1
    IN  \/ \E k \in 1..Len(CAPTION_PATTERNS) :
              AltsMatch(trimmed, CAPTION_PATTERNS[k].alts, 1) > 0
        \/ ItemMatch(trimmed).end > 0
        \/ (n >= 1 /\ a <= Len(trimmed) /\ trimmed[a] \in SeparatorChars)

(***************************************************************************)
(* html-parser.ts: block parsing and postProcessElements                    *)
(***************************************************************************)
RECURSIVE ParseLinesFrom(_, _, _)
\* the for loop of parseCustomDirective from line k, on the locals st
ParseLinesFrom(st, ls, k) ==
    IF k > Len(ls) THEN st
    ELSE ParseLinesFrom(
            parseLineBody(st.argument, st.options, st.bodyLines, st.inBody, ls[k]),
            ls, k + 1)

\* parseCustomDirective
parseCustomDirective(style, text) ==
    LET st == ParseLinesFrom([argument |-> [defined |-> FALSE, value |-> <<>>],
                              options |-> <<>>, bodyLines |-> <<>>,
                              inBody |-> FALSE],
                             Split(text, NL), 1)
    IN  [name |-> extractDirectiveName(style),
         argument |-> st.argument,
         options |-> st.options,
         content |-> trimBodyContent(st.bodyLines)]

RECURSIVE parseListElement(_)
\* parseListElement and parseListItem: a UL/OL block with its LI children
parseListElement(block) ==
    [type |-> "list",
     listType |-> IF block.tag = "OL" THEN "ordered" ELSE "unordered",
     items |-> [k \in 1..Len(block.items) |->
                  [content |-> Trim(block.items[k].text),
                   nestedList |-> IF block.items[k].nested = <<>> THEN <<>>
                                  ELSE <<parseListElement(block.items[k].nested[1])>>,
                   indentLevel |-> <<>>]]]

\* element.className of a block: Word writes the style as the class Mso<style>
ClassNameOf(block) ==
    IF "style" \in DOMAIN block THEN <<"M", "s", "o">> \o block.style ELSE <<>>

\* hasCaptionStyle: the class name holds 'caption', or the tag is figcaption
hasCaptionStyle(block) == Includes(ToLower(ClassNameOf(block)), <<"c", "a", "p", "t", "i", "o", "n">>)

\* element.textContent of a block
TextContentOf(block) ==
    IF block.kind = "wordlist" THEN block.marker \o block.text
    ELSE IF block.kind = "figureTag" THEN
        (IF block.figcaption = <<>> THEN <<>> ELSE block.figcaption[1])
    ELSE IF "text" \in DOMAIN block THEN block.text
    ELSE <<>>

\* the first index of 1..n that satisfies Test, 0 if there is none
FirstIndex(n, Test(_)) ==
    IF \E k \in 1..n : Test(k)
    THEN CHOOSE k \in 1..n : Test(k) /\ \A j \in 1..(k - 1) : ~Test(j)
    ELSE 0

\* findNearbyCaption for the block at index k of the body: whether a caption
\* element was found, the index of the block it is (or is in), and its text
\* content
NoCaptionElement == [found |-> FALSE, index |-> 0, text |-> <<>>]
findNearbyCaption(bs, k) ==
    LET isCaption(j) == hasCaptionStyle(bs[j]) \/ looksLikeCaption(Trim(TextContentOf(bs[j])))
        at(j) == [found |-> TRUE, index |-> j, text |-> TextContentOf(bs[j])]
        withFigcaption(j) == bs[j].kind = "figureTag" /\ bs[j].figcaption # <<>>
        withClass(j) == j # k /\ hasCaptionStyle(bs[j])
        fc == FirstIndex(Len(bs), withFigcaption)
        cc == FirstIndex(Len(bs), withClass)
    IN  IF k < Len(bs) /\ isCaption(k + 1) THEN at(k + 1)
        ELSE IF k > 1 /\ isCaption(k - 1) THEN at(k - 1)
        ELSE IF fc > 0 THEN at(fc)
        ELSE IF cc > 0 THEN at(cc)
        ELSE NoCaptionElement

\* parsed.number.replace(/\./g, '-')
DotsToDashes(s) == [k \in 1..Len(s) |-> IF s[k] = "." THEN "-" ELSE s[k]]

\* \w of a regular expression
WordChars == LowerLetters \cup UpperLetters \cup Digits \cup {"_"}

DigitChar(n) == <<"0", "1", "2", "3", "4", "5", "6", "7", "8", "9">>[n + 1]

RECURSIVE DecimalOf(_)
\* String(n)
DecimalOf(n) == IF n < 10 THEN <<DigitChar(n)>> ELSE DecimalOf(n \div 10) \o <<DigitChar(n % 10)>>

\* String(n).padStart(3, '0')
PadStart3(n) == Repeat("0", 3 - Len(DecimalOf(n))) \o DecimalOf(n)

\* 'jpeg' becomes 'jpg'
JpegToJpg(format) == IF format = <<"j", "p", "e", "g">> THEN <<"j", "p", "g">> ELSE format

\* getExtensionFromSrc: /\.(\w+)(?:\?.*)?$/, 'png' if there is no match
getExtensionFromSrc(src) ==
    LET e(k) == RunEnd(src, k + 1, WordChars)
        matches(k) == /\ src[k] = "."
                      /\ e(k) > k
                      /\ \/ e(k) = Len(src)
                         \/ src[e(k) + 1] = "?" /\ \A j \in (e(k) + 2)..Len(src) : src[j] # NL
        k0 == FirstIndex(Len(src), matches)
    IN  IF k0 = 0 THEN <<"p", "n", "g">>
        ELSE JpegToJpg(ToLower(SubSeq(src, k0 + 1, e(k0))))

NoImageData == [defined |-> FALSE, counter |-> 0, image |-> [id |-> <<>>, filename |-> <<>>, base64Data |-> <<>>, format |-> <<>>]]

\* the ExtractedImage with number n
ImageNumbered(n, format, base64Data) ==
    [id |-> <<"i", "m", "g", "-">> \o DecimalOf(n),
     filename |-> <<"i", "m", "a", "g", "e", "s", "/", "i", "m", "a", "g", "e", "_">> \o PadStart3(n) \o <<".">> \o format,
     base64Data |-> base64Data,
     format |-> format]

\* extractImageData of an img element with the given src, when imageCounter
\* is counter: whether an image is returned, the image, and the new counter
extractImageData(src, counter) ==
    LET e == RunEnd(src, 12, WordChars)
        dataUrl == /\ StartsWith(src, <<"d", "a", "t", "a", ":", "i", "m", "a", "g", "e", "/">>)
                   /\ e >= 12
                   /\ SubSeq(src, e + 1, e + 8) = <<";", "b", "a", "s", "e", "6", "4", ",">>
                   /\ Len(src) >= e + 9
                   /\ \A j \in (e + 9)..Len(src) : src[j] # NL
    IN  IF dataUrl
        THEN [defined |-> TRUE, counter |-> counter + 1,
              image |-> ImageNumbered(counter + 1, JpegToJpg(SubSeq(src, 12, e)),
                                      SubSeq(src, e + 9, Len(src)))]
        ELSE IF StartsWith(src, <<"h", "t", "t", "p", ":", "/", "/">>) \/ StartsWith(src, <<"h", "t", "t", "p", "s", ":", "/", "/">>)
        THEN [NoImageData EXCEPT !.counter = counter]
        ELSE IF src # <<>>
        THEN [defined |-> TRUE, counter |-> counter + 1,
              image |-> ImageNumbered(counter + 1, getExtensionFromSrc(src), <<>>)]
        ELSE [NoImageData EXCEPT !.counter = counter]

NoImageOptions ==
    [uri |-> <<>>, alt |-> <<>>, height |-> <<>>, width |-> <<>>, scale |-> <<>>,
     align |-> <<>>, target |-> <<>>, class |-> <<>>, name |-> <<>>, loading |-> <<>>]

\* parseImageOptionsFromElement, for an img without size attributes and
\* without a link around it: the uri, the alt text, and the alignment that
\* detectImageAlignment reads from a centered parent
parseImageOptionsFromElement(block, imageData) ==
    [NoImageOptions EXCEPT
        !.uri = IF imageData.defined THEN imageData.image.filename ELSE block.src,
        !.alt = block.alt,
        !.align = IF block.centered THEN <<"c", "e", "n", "t", "e", "r">> ELSE <<>>]

NoFigureOptions ==
    [caption |-> <<>>, legend |-> <<>>, figwidth |-> <<>>, figclass |-> <<>>,
     figname |-> <<>>, figureNumber |-> <<>>]

\* { ...o, ...f }
Spread(o, f) == [x \in DOMAIN o \cup DOMAIN f |-> IF x \in DOMAIN f THEN f[x] ELSE o[x]]

\* an image or figure element; imageData is a field only when it is defined
ImageElementOf(type, opts, imageData) ==
    IF imageData.defined
    THEN [type |-> type, options |-> opts, imageData |-> imageData.image]
    ELSE [type |-> type, options |-> opts]

\* createFigureElement with the caption of a figure never set
createFigureElement_NoCaption(imageOptions, imageData, captionElement) ==
    ImageElementOf("figure", Spread(imageOptions, NoFigureOptions), imageData)

\* createFigureElement: figname from the image, caption, figureNumber and
\* figname from the caption element (the container has no width style)
createFigureElement(imageOptions, imageData, captionElement) ==
    LET captionText == Trim(captionElement.text)
        parsed == parseCaption(captionText)
        figureId == IF imageData.defined THEN imageData.image.id
                    ELSE <<"i", "m", "g", "-">> \o DecimalOf(imageData.counter)
        f == IF ~captionElement.found
             THEN [NoFigureOptions EXCEPT !.figname = figureId]
             ELSE IF parsed.matched
             THEN [NoFigureOptions EXCEPT !.caption = parsed.text,
                                          !.figureNumber = parsed.number,
                                          !.figname = <<"f", "i", "g", "-">> \o DotsToDashes(parsed.number)]
             ELSE [NoFigureOptions EXCEPT !.caption = captionText, !.figname = figureId]
    IN  ImageElementOf("figure", Spread(imageOptions, f), imageData)

\* parseFigureElement: a FIGURE element with an image; the caption is its own
\* figcaption
parseFigureElement(block, counter) ==
    LET imageData == extractImageData(block.src, counter)
    IN  createFigureElement(
            parseImageOptionsFromElement(block, imageData), imageData,
            IF block.figcaption = <<>> THEN NoCaptionElement
            ELSE [found |-> TRUE, index |-> 0, text |-> block.figcaption[1]])

\* isLikelyFigure of a paragraph holding one image
isLikelyFigure(block) == block.centered

\* parseImageOrFigure
parseImageOrFigure(bs, k, counter) ==
    LET imageData == extractImageData(bs[k].src, counter)
        imageOptions == parseImageOptionsFromElement(bs[k], imageData)
        captionElement == findNearbyCaption(bs, k)
    IN  IF captionElement.found \/ isLikelyFigure(bs[k])
        THEN createFigureElement(imageOptions, imageData, captionElement)
        ELSE ImageElementOf("image", imageOptions, imageData)

\* whether the block holds an img element
HasImage(block) == block.kind \in {"figureTag", "imagePara"}

RECURSIVE ImageCounterAt(_, _)
\* imageCounter when the first k blocks are parsed
ImageCounterAt(bs, k) ==
    IF k = 0 THEN 0
    ELSE IF HasImage(bs[k])
    THEN extractImageData(bs[k].src, ImageCounterAt(bs, k - 1)).counter
    ELSE ImageCounterAt(bs, k - 1)

RECURSIVE ImagesFrom(_, _)
\* the images array of parseWordHtml: the images extracted from block k on
ImagesFrom(bs, k) ==
    IF k > Len(bs) THEN <<>>
    ELSE LET d == extractImageData(bs[k].src, ImageCounterAt(bs, k - 1))
         IN  (IF HasImage(bs[k]) /\ d.defined THEN <<d.image>> ELSE <<>>)
             \o ImagesFrom(bs, k + 1)

\* parseElement of the block at index k of the body, on blocks already
\* classified by kind: the elements it yields (none for a white-space
\* paragraph)
parseElement(bs, k) ==
    LET block == bs[k]
    IN
    CASE block.kind = "directive" ->
            << [type |-> "directive", style |-> block.style,
                directive |-> parseCustomDirective(block.style, block.text)] >>
      [] block.kind = "heading" ->
            << [type |-> "heading", level |-> ClampLevel(block.level),
                text |-> block.text] >>
      [] block.kind = "table" ->
            << [type |-> "table", data |-> [rows |-> block.rows, options |-> block.options]] >>
      [] block.kind = "list" -> << parseListElement(block) >>
      [] block.kind = "figureTag" ->
            << parseFigureElement(block, ImageCounterAt(bs, k - 1)) >>
      [] block.kind = "imagePara" ->
            << parseImageOrFigure(bs, k, ImageCounterAt(bs, k - 1)) >>
      [] block.kind = "blockquote" ->
            << [type |-> "paragraph", content |-> block.text, isBlockQuote |-> TRUE,
                style |-> block.style] >>
      [] block.kind = "wordlist" -> << parseWordListItem(block) >>
      [] block.kind = "paragraph" /\ hasCaptionStyle(block) ->
            << [type |-> "paragraph", content |-> Trim(block.text),
                style |-> block.style] >>
      [] OTHER ->
            IF Trim(block.text) = <<>> THEN <<>>
            ELSE << [type |-> "paragraph", content |-> block.text,
                     style |-> block.style] >>

RECURSIVE ParseBlocksFrom(_, _)
\* parseWordHtml: the loop over the block elements
ParseBlocksFrom(bs, k) ==
    IF k > Len(bs) THEN <<>> ELSE parseElement(bs, k) \o ParseBlocksFrom(bs, k + 1)

\* isCaptionStyle of postProcessElements
IsCaptionStyle(style) == Includes(ToLower(style), <<"c", "a", "p", "t", "i", "o", "n">>)

\* postProcessElements, the table branch: the table with the caption of the
\* paragraph para merged in, and whether para is popped from the result
AttachCaption(table, para) ==
    LET isCaption == IsCaptionStyle(para.style)
        captionText == Trim(para.content)
        parsed == parseCaption(captionText)
        opts == table.data.options
        merged ==
            IF parsed.matched /\ parsed.type = "Table"
            THEN [opts EXCEPT !.caption = parsed.text,
                              !.tableNumber = parsed.number,
                              !.name = <<"t", "a", "b", "l", "e", "-">> \o DotsToDashes(parsed.number)]
            ELSE IF isCaption THEN [opts EXCEPT !.caption = captionText]
            ELSE opts
    IN  IF isCaption \/ StartsWith(ToLower(para.content), <<"t", "a", "b", "l", "e", SP>>)
        THEN [table |-> [table EXCEPT !.data.options = merged],
              pop |-> merged.caption # <<>>]
        ELSE [table |-> table, pop |-> FALSE]

\* MergeDirective with the bodies joined by a single newline
MergeDirective_NoBlankLine(lastDirective, d) ==
    [lastDirective EXCEPT !.directive.content = @ \o <<NL>> \o d.directive.content]

\* lastDirective.directive.content += '\n\n' + directive.directive.content
MergeDirective(lastDirective, d) ==
    [lastDirective EXCEPT !.directive.content = @ \o <<NL, NL>> \o d.directive.content]

\* postProcessElements, one iteration of the for loop on element current:
\* the new result, and whether the iteration threw
postProcessIteration(res, current) ==
    LET n == Len(res)
        hasLast == n > 0
        last == res[n]
        ok(r) == [result |-> r, threw |-> FALSE]
    IN  IF current.type = "paragraph" /\ IsCaptionStyle(current.style)
           /\ hasLast /\ last.type = "figure"
        THEN ok(res)
        ELSE IF current.type = "directive" /\ hasLast /\ last.type = "directive"
                /\ last.style = current.style
        THEN ok([res EXCEPT ![n] = MergeDirective(last, current)])
        ELSE IF current.type = "list"
        THEN IF Len(current.items) = 0
             THEN [result |-> res, threw |-> TRUE]
             ELSE LET newItem == current.items[1]
                      newIndent == IF newItem.indentLevel = <<>> THEN 0
                                   ELSE newItem.indentLevel[1]
                  IN  IF hasLast /\ last.type = "list"
                      THEN ok([res EXCEPT ![n] =
                                 addItemToList(last, newItem, newIndent,
                                               current.listType)])
                      ELSE ok(Append(res,
                                 [current EXCEPT !.items[1] =
                                     DeleteIndentLevel(newItem)]))
        ELSE IF current.type = "table" /\ hasLast /\ last.type = "paragraph"
        THEN LET a == AttachCaption(current, last)
             IN  ok(Append(IF a.pop THEN SubSeq(res, 1, n - 1) ELSE res,
                           a.table))
        ELSE ok(Append(res, current))

(***************************************************************************)
(* directives: image, figure, table and contents generators                 *)
(***************************************************************************)
\* one option line, `${INDENT}:name: value`, pushed when the value is truthy
OptionLineIf(name, value) ==
    IF value = <<>> THEN <<>>
    ELSE << INDENT \o <<":">> \o name \o <<":", SP>> \o value >>

\* generateImageDirective, as the list of lines it pushes
generateImageDirectiveLines(o) ==
    << <<".", ".", SP, "i", "m", "a", "g", "e", ":", ":", SP>> \o o.uri >>
    \o OptionLineIf(<<"a", "l", "t">>, o.alt)
    \o OptionLineIf(<<"h", "e", "i", "g", "h", "t">>, o.height)
    \o OptionLineIf(<<"w", "i", "d", "t", "h">>, o.width)
    \o OptionLineIf(<<"s", "c", "a", "l", "e">>, IF o.scale = <<>> THEN <<>> ELSE o.scale \o <<"%">>)
    \o OptionLineIf(<<"a", "l", "i", "g", "n">>, o.align)
    \o OptionLineIf(<<"t", "a", "r", "g", "e", "t">>, o.target)
    \o OptionLineIf(<<"c", "l", "a", "s", "s">>, o.class)
    \o OptionLineIf(<<"n", "a", "m", "e">>, o.name)
    \o OptionLineIf(<<"l", "o", "a", "d", "i", "n", "g">>, o.loading)

generateImageDirective(o) == Join(generateImageDirectiveLines(o), <<NL>>)

\* isFigureAlignment: left, center or right, in any case
isFigureAlignment(align) == ToLower(align) \in {<<"l", "e", "f", "t">>, <<"c", "e", "n", "t", "e", "r">>, <<"r", "i", "g", "h", "t">>}

\* `${INDENT}${line}` for every line
IndentAll(ls) == [k \in 1..Len(ls) |-> INDENT \o ls[k]]

\* generateFigureDirective, as the list of lines it pushes
generateFigureDirectiveLines(o) ==
    << <<".", ".", SP, "f", "i", "g", "u", "r", "e", ":", ":", SP>> \o o.uri >>
    \o OptionLineIf(<<"a", "l", "t">>, o.alt)
    \o OptionLineIf(<<"h", "e", "i", "g", "h", "t">>, o.height)
    \o OptionLineIf(<<"w", "i", "d", "t", "h">>, o.width)
    \o OptionLineIf(<<"s", "c", "a", "l", "e">>, IF o.scale = <<>> THEN <<>> ELSE o.scale \o <<"%">>)
    \o (IF isFigureAlignment(o.align) THEN OptionLineIf(<<"a", "l", "i", "g", "n">>, o.align) ELSE <<>>)
    \o OptionLineIf(<<"t", "a", "r", "g", "e", "t">>, o.target)
    \o OptionLineIf(<<"f", "i", "g", "w", "i", "d", "t", "h">>, o.figwidth)
    \o OptionLineIf(<<"f", "i", "g", "c", "l", "a", "s", "s">>, o.figclass)
    \o OptionLineIf(<<"n", "a", "m", "e">>, IF o.figname # <<>> THEN o.figname ELSE o.name)
    \o OptionLineIf(<<"c", "l", "a", "s", "s">>, o.class)
    \o (IF o.caption # <<>> THEN << <<>>, INDENT \o o.caption >> ELSE <<>>)
    \o (IF o.legend # <<>> THEN << <<>> >> \o IndentAll(Split(o.legend, NL)) ELSE <<>>)

generateFigureDirective(o) == Join(generateFigureDirectiveLines(o), <<NL>>)

\* options.widths: absent, a string, or an array of numbers (joined by ' ')
NoWidths == [defined |-> FALSE, isArray |-> FALSE, text |-> <<>>, numbers |-> <<>>]
WidthsLine(w) ==
    IF ~w.defined \/ (~w.isArray /\ w.text = <<>>) THEN <<>>
    ELSE << INDENT \o <<":", "w", "i", "d", "t", "h", "s", ":", SP>>
            \o (IF w.isArray THEN Join(w.numbers, <<SP>>) ELSE w.text) >>

\* generateTableDirective, as the list of lines it pushes (the grid table is
\* one entry)
generateTableDirectiveLines(data) ==
    LET o == data.options
        gridTable == generateGridTable(data.rows, o.hasHeader)
        useDirective == \/ o.caption # <<>> \/ o.align # <<>> \/ o.width # <<>>
                        \/ WidthsLine(o.widths) # <<>>
                        \/ o.class # <<>> \/ o.name # <<>>
    IN  IF useDirective
        THEN << IF o.caption # <<>> THEN <<".", ".", SP, "t", "a", "b", "l", "e", ":", ":", SP>> \o o.caption
                ELSE <<".", ".", SP, "t", "a", "b", "l", "e", ":", ":">> >>
             \o OptionLineIf(<<"a", "l", "i", "g", "n">>, o.align)
             \o OptionLineIf(<<"w", "i", "d", "t", "h">>, o.width)
             \o WidthsLine(o.widths)
             \o OptionLineIf(<<"c", "l", "a", "s", "s">>, o.class)
             \o OptionLineIf(<<"n", "a", "m", "e">>, o.name)
             \o << <<>>, Join(IndentAll(Split(gridTable, NL)), <<NL>>) >>
        ELSE << gridTable >>

generateTableDirective(data) == Join(generateTableDirectiveLines(data), <<NL>>)

\* generateContentsDirective, as the list of lines it pushes; depth is a
\* number (0 or absent: no line), local a boolean
generateContentsDirectiveLines(o) ==
    << IF o.title # <<>> THEN <<".", ".", SP, "c", "o", "n", "t", "e", "n", "t", "s", ":", ":", SP>> \o o.title ELSE <<".", ".", SP, "c", "o", "n", "t", "e", "n", "t", "s", ":", ":">> >>
    \o (IF o.depth # <<>> /\ o.depth[1] > 0
        THEN << INDENT \o <<":", "d", "e", "p", "t", "h", ":", SP>> \o <<ToString(o.depth[1])>> >> ELSE <<>>)
    \o (IF o.local THEN << INDENT \o <<":", "l", "o", "c", "a", "l", ":">> >> ELSE <<>>)
    \o OptionLineIf(<<"b", "a", "c", "k", "l", "i", "n", "k", "s">>, o.backlinks)
    \o OptionLineIf(<<"c", "l", "a", "s", "s">>, o.class)

generateContentsDirective(o) == Join(generateContentsDirectiveLines(o), <<NL>>)

(***************************************************************************)
(* rst-formatter.ts: formatElement, formatDocument                          *)
(***************************************************************************)
\* wrapText of the formatter
wrapLine(text, width) ==
    IF width <= 0 \/ Len(text) <= width THEN text
    ELSE Join(WrapWords(Split(NormalizeWS(text), SP), <<>>, width), <<NL>>)

\* indentText: every line that is not blank is indented, a blank line
\* becomes empty
indentText(text, spaces) ==
    LET ls == Split(text, NL)
    IN  Join([k \in 1..Len(ls) |->
                IF Trim(ls[k]) # <<>> THEN Repeat(SP, spaces) \o ls[k] ELSE <<>>],
             <<NL>>)

\* formatParagraph
formatParagraph(element, opts) ==
    LET content1 == IF opts.lineWidth > 0 THEN wrapLine(element.content, opts.lineWidth)
                    ELSE element.content
    IN  IF "isBlockQuote" \in DOMAIN element /\ element.isBlockQuote
        THEN indentText(content1, opts.indentSize)
        ELSE content1

RECURSIVE formatListLines(_, _, _)
\* formatList, as the list of strings it pushes
formatListLines(element, opts, depth) ==
    LET indent == Repeat(SP, 2 * depth)
        marker == IF element.listType = "ordered" THEN <<"#", ".">> ELSE <<"-">>
        itemLines(item) ==
            LET contentLines == Split(wrapLine(item.content,
                                        opts.lineWidth - Len(indent) - Len(marker) - 1), NL)
            IN  (IF opts.lineWidth > 0
                 THEN << indent \o marker \o <<SP>> \o contentLines[1] >>
                      \o [j \in 1..(Len(contentLines) - 1) |->
                            indent \o Repeat(SP, Len(marker) + 1) \o contentLines[j + 1]]
                 ELSE << indent \o marker \o <<SP>> \o item.content >>)
                \o (IF item.nestedList # <<>>
                    THEN << Join(formatListLines(item.nestedList[1], opts, depth + 1), <<NL>>) >>
                    ELSE <<>>)
        from[k \in 1..(Len(element.items) + 1)] ==
            IF k > Len(element.items) THEN <<>>
            ELSE itemLines(element.items[k]) \o from[k + 1]
    IN  from[1]

formatList(element, opts) == Join(formatListLines(element, opts, 0), <<NL>>)

\* formatImage and formatFigure: the uri becomes the file name of the
\* extracted image unless it starts with 'http'
AdjustUri(element) ==
    IF "imageData" \in DOMAIN element /\ ~StartsWith(element.options.uri, <<"h", "t", "t", "p">>)
    THEN [element.options EXCEPT !.uri = element.imageData.filename]
    ELSE element.options

\* formatElement
formatElement(element, opts) ==
    CASE element.type = "heading" -> formatHeading(element, opts)
      [] element.type = "paragraph" -> formatParagraph(element, opts)
      [] element.type = "list" -> formatList(element, opts)
      [] element.type = "image" -> generateImageDirective(AdjustUri(element))
      [] element.type = "figure" -> generateFigureDirective(AdjustUri(element))
      [] element.type = "table" -> generateTableDirective(element.data)
      [] element.type = "toc" -> generateContentsDirective(element.options)
      [] element.type = "directive" -> generateCustomDirective(element.directive)
      [] OTHER -> <<>>

\* parseFieldListLine of the field-list design: /^(\w+)::(?:\t(.*))?$/, the
\* value being match[2] || ''
parseFieldListLine(line) ==
    LET nameEnd == RunEnd(line, 1, WordChars)
        rest == SubSeq(line, nameEnd + 3, Len(line))
        matches ==
            /\ nameEnd >= 1
            /\ Len(line) >= nameEnd + 2
            /\ SubSeq(line, nameEnd + 1, nameEnd + 2) = <<":", ":">>
            /\ \/ rest = <<>>
               \/ Head(rest) = TAB /\ \A k \in 2..Len(rest) : rest[k] # NL
    IN  IF matches
        THEN [matched |-> TRUE, name |-> SubSeq(line, 1, nameEnd),
              value |-> IF rest = <<>> THEN <<>> ELSE Tail(rest)]
        ELSE [matched |-> FALSE, name |-> <<>>, value |-> <<>>]

RECURSIVE FormattedParts(_, _, _)
\* formatDocument, the loop: the formatted elements that are not empty
FormattedParts(els, opts, k) ==
    IF k > Len(els) THEN <<>>
    ELSE LET formatted1 == formatElement(els[k], opts)
         IN  (IF formatted1 # <<>> THEN <<formatted1>> ELSE <<>>)
             \o FormattedParts(els, opts, k + 1)

RECURSIVE JoinedLinesFrom(_, _)
\* joinWithSpacing, the loop from index k (1-based): the entries pushed
JoinedLinesFrom(parts, k) ==
    IF k > Len(parts) THEN <<>>
    ELSE LET part == Trim(parts[k])
         IN  (IF part = <<>> THEN <<>>
              ELSE (IF k > 1 THEN << <<>> >> ELSE <<>>) \o <<part>>)
             \o JoinedLinesFrom(parts, k + 1)

\* joinWithSpacing
joinWithSpacing(parts) ==
    IF Len(parts) = 0 THEN <<>> ELSE Join(JoinedLinesFrom(parts, 1), <<NL>>)

\* formatDocument
formatDocument(els, opts) == joinWithSpacing(FormattedParts(els, opts, 1))

(***************************************************************************)
(* word-to-rst.ts, index.ts: convertToRst, convertToRstAsync                *)
(***************************************************************************)
\* hasMetadata (of the metadata fields, the title is modelled)
hasMetadata(md) == md.title # <<>>

\* formatMetadata
formatMetadata(md) ==
    Join(IF md.title # <<>> THEN << <<":", "t", "i", "t", "l", "e", ":", SP>> \o md.title >> ELSE <<>>, <<NL>>)

\* formatGenerationComment on the day date
formatGenerationComment(date) == <<".", ".", SP, "G", "e", "n", "e", "r", "a", "t", "e", "d", SP, "b", "y", SP, "R", "S", "T", SP, "W", "o", "r", "d", SP, "A", "d", "d", "-", "i", "n", SP, "o", "n", SP>> \o date

\* convertToRst: what is prepended to the formatted document, the generation
\* comment before the metadata, each followed by a blank line
RstPrefix(co, md, date) ==
    (IF co.addGeneratedComment
     THEN formatGenerationComment(date) \o <<NL, NL>> ELSE <<>>)
    \o (IF co.includeMetadata /\ hasMetadata(md)
        THEN formatMetadata(md) \o <<NL, NL>> ELSE <<>>)

\* convertToRst with a warning on every result
convertToRst_WarnsAlways(threw, message, els, imgs, opts, co, md, date) ==
    [rst |-> IF threw THEN <<>> ELSE formatDocument(els, opts),
     images |-> IF threw THEN <<>> ELSE imgs,
     warnings |-> << <<"H", "T", "M", "L", SP, "p", "a", "r", "s", "i", "n", "g", SP, "e", "r", "r", "o", "r", ":", SP>> \o message >>]

\* convertToRst: the result when parseWordHtml threw an error with the given
\* message, and the result when it returned the elements els and images imgs
convertToRst(threw, message, els, imgs, opts, co, md, date) ==
    IF threw
    THEN [rst |-> <<>>, images |-> <<>>,
          warnings |-> << <<"H", "T", "M", "L", SP, "p", "a", "r", "s", "i", "n", "g", SP, "e", "r", "r", "o", "r", ":", SP>> \o message >>]
    ELSE [rst |-> RstPrefix(co, md, date) \o formatDocument(els, opts),
          images |-> imgs, warnings |-> <<>>]

\* fetchImageAsBase64: null (the empty sequence) for an image without srcUrl;
\* with a srcUrl the fetch may fail or return the data
FetchOutcomes(image) ==
    IF "srcUrl" \in DOMAIN image THEN {<<>>, << <<"Q", "Q">> >>} ELSE {<<>>}

RECURSIVE ResolvedFrom(_, _, _)
\* resolveBlobUrls from image k on, fetched[k] being what fetchImageAsBase64
\* returned for image k: the images and the warnings pushed
ResolvedFrom(imgs, fetched, k) ==
    IF k > Len(imgs) THEN [images |-> <<>>, warnings |-> <<>>]
    ELSE LET rest == ResolvedFrom(imgs, fetched, k + 1)
             image == imgs[k]
             isBlob == image.base64Data = <<>> /\ image.filename # <<>>
         IN  IF ~isBlob
             THEN [rest EXCEPT !.images = <<image>> \o @]
             ELSE IF fetched[k] # <<>> /\ fetched[k][1] # <<>>
             THEN [rest EXCEPT !.images = <<[image EXCEPT !.base64Data = fetched[k][1]]>> \o @]
             ELSE [images |-> <<image>> \o rest.images,
                   warnings |-> << <<"C", "o", "u", "l", "d", SP, "n", "o", "t", SP, "f", "e", "t", "c", "h", SP, "i", "m", "a", "g", "e", ":", SP>> \o image.filename >>
                                \o rest.warnings]

\* resolveBlobUrls that warns when there is no image to fetch
resolveBlobUrls_WarnsWithoutImages(res, fetched) ==
    LET r == ResolvedFrom(res.images, fetched, 1)
    IN  [res EXCEPT !.images = r.images,
                    !.warnings = @ \o (IF r.warnings = <<>>
                                       THEN << <<"N", "o", SP, "i", "m", "a", "g", "e", "s", SP, "t", "o", SP, "f", "e", "t", "c", "h">> >>
                                       ELSE r.warnings)]

\* resolveBlobUrls
resolveBlobUrls(res, fetched) ==
    LET r == ResolvedFrom(res.images, fetched, 1)
    IN  [res EXCEPT !.images = r.images, !.warnings = @ \o r.warnings]

(***************************************************************************)
(* html-parser.ts: parseElement, the order of its branches.  A node is a    *)
(* block element given by its tag, its class attribute, the number of img   *)
(* elements in it, its cellpadding and cellspacing attributes (empty when   *)
(* absent), whether it holds text, and whether it is centred.               *)
(***************************************************************************)
\* /Mso(\w+)/ on the class name: the word after the first 'Mso', none if empty
MsoWord(className) ==
    LET n == Len(className)
        Test(k) == /\ k + 3 <= n
                   /\ SubSeq(className, k, k + 2) = <<"M", "s", "o">>
                   /\ className[k + 3] \in WordChars
        at == FirstIndex(n, Test)
    IN  IF at = 0 THEN <<>>
        ELSE SubSeq(className, at + 3, RunEnd(className, at + 3, WordChars))

\* the first class with the prefix rst_ or rst-, 'rst-' replaced by 'rst_'
RstClass(className) ==
    LET classes == Split(className, SP)
        Test(k) == \/ StartsWith(ToLower(classes[k]), <<"r", "s", "t", "_">>)
                   \/ StartsWith(classes[k], <<"r", "s", "t", "-">>)
        at == FirstIndex(Len(classes), Test)
        cls == classes[at]
        dash == FirstIndex(Len(cls), LAMBDA k : /\ k + 3 <= Len(cls)
                                                 /\ SubSeq(cls, k, k + 3) = <<"r", "s", "t", "-">>)
    IN  IF at = 0 THEN <<>>
        ELSE IF dash = 0 THEN cls
        ELSE SubSeq(cls, 1, dash - 1) \o <<"r", "s", "t", "_">> \o SubSeq(cls, dash + 4, Len(cls))

\* extractWordStyle of a node without style and data-style attributes: the
\* style name, empty for null
extractWordStyle(n) ==
    IF MsoWord(n.className) # <<>> THEN MsoWord(n.className)
    ELSE RstClass(n.className)

\* isRstDirectiveStyle
isRstDirectiveStyle(style) == StartsWith(ToLower(style), RST_STYLE_PREFIX)

\* isTocElement of a node without field code, style attribute and links
isTocElement(n) ==
    LET className == ToLower(n.className)
    IN  \/ Includes(className, <<"t", "o", "c">>)
        \/ Includes(className, <<"t", "a", "b", "l", "e", "o", "f", "c", "o", "n", "t", "e", "n", "t", "s">>)
        \/ Includes(className, <<"t", "a", "b", "l", "e", "-", "o", "f", "-", "c", "o", "n", "t", "e", "n", "t", "s">>)

\* parseInt of one digit
DigitOf(c) == CHOOSE d \in 0..9 : DigitChar(d) = c

\* the digit captured by the first match of word, optional white space and a
\* digit, in the class name without regard to case; -1 if there is no match
PatternLevel(className, word, spaces) ==
    LET low == ToLower(className)
        n == Len(low)
        DigitAt(k) == IF spaces THEN RunEnd(low, k + Len(word), WSChars) + 1
                      ELSE k + Len(word)
        Test(k) == /\ k + Len(word) - 1 <= n
                   /\ SubSeq(low, k, k + Len(word) - 1) = word
                   /\ DigitAt(k) <= n
                   /\ low[DigitAt(k)] \in Digits
        at == FirstIndex(n, Test)
    IN  IF at = 0 THEN -1 ELSE DigitOf(low[DigitAt(at)])

\* /^H(\d)$/ on the tag name
HeadingTags == <<"H0", "H1", "H2", "H3", "H4", "H5", "H6", "H7", "H8", "H9">>

\* detectHeadingLevel of a node without style attribute: the level, -1 for null
detectHeadingLevel(n) ==
    LET tagAt == FirstIndex(Len(HeadingTags), LAMBDA k : HeadingTags[k] = n.tag)
        mso == PatternLevel(n.className, <<"m", "s", "o", "h", "e", "a", "d", "i", "n", "g">>, FALSE)
        hd == PatternLevel(n.className, <<"h", "e", "a", "d", "i", "n", "g">>, TRUE)
        low == ToLower(n.className)
    IN  IF tagAt # 0 THEN tagAt - 1
        ELSE IF mso # -1 THEN mso
        ELSE IF hd # -1 THEN hd
        ELSE IF Len(low) = 2 /\ low[1] = "h" /\ low[2] \in Digits THEN DigitOf(low[2])
        ELSE -1

\* isWordListParagraph
isWordListParagraph(n) == Includes(ToLower(n.className), <<"m", "s", "o", "l", "i", "s", "t", "p", "a", "r", "a", "g", "r", "a", "p", "h">>)

\* hasCaptionStyle of a node without style attribute
NodeHasCaptionStyle(n) ==
    \/ Includes(ToLower(n.className), <<"c", "a", "p", "t", "i", "o", "n">>)
    \/ n.tag = "FIGCAPTION"

\* isLayoutTable
isLayoutTable(table) ==
    IF Includes(table.className, <<"M", "s", "o", "T", "a", "b", "l", "e", "G", "r", "i", "d">>) THEN FALSE
    ELSE LET hasImages == table.imgs > 0
             isLayoutStyle == table.cellpadding = <<"0">> \/ table.cellspacing = <<"0">>
         IN  hasImages /\ isLayoutStyle

\* what a branch of parseElement returns: the branch, the type of the elements
\* returned, and their number (0 for null)
Returns(rule, type, count) == [rule |-> rule, type |-> type, count |-> count]

\* parseElement: the branch taken for a node and what it returns
parseElementBranch(n) ==
    LET wordStyle == extractWordStyle(n)
        headingLevel == detectHeadingLevel(n)
    IN  IF isTocElement(n) THEN Returns("toc", "toc", 1)
        ELSE IF wordStyle # <<>> /\ isRstDirectiveStyle(wordStyle)
        THEN Returns("directive", "directive", 1)
        ELSE IF headingLevel > 0 THEN Returns("heading", "heading", 1)
        ELSE IF n.tag = "TABLE" THEN
            (IF isLayoutTable(n) THEN Returns("table", "image", n.imgs)
             ELSE Returns("table", "table", 1))
        ELSE IF n.tag \in {"UL", "OL"} THEN Returns("list", "list", 1)
        ELSE IF n.tag = "FIGURE" THEN
            (IF n.imgs = 0 THEN Returns("figure", "none", 0)
             ELSE Returns("figure", "figure", 1))
        ELSE IF n.imgs > 1 THEN Returns("image", "image", n.imgs)
        ELSE IF n.imgs = 1 THEN
            Returns("image", IF isLikelyFigure(n) THEN "figure" ELSE "image", 1)
        ELSE IF n.tag = "BLOCKQUOTE" \/ Includes(ToLower(n.className), <<"q", "u", "o", "t", "e">>)
        THEN Returns("blockquote", "paragraph", 1)
        ELSE IF NodeHasCaptionStyle(n) THEN Returns("caption", "paragraph", 1)
        ELSE IF isWordListParagraph(n) THEN Returns("listParagraph", "list", 1)
        ELSE IF n.hasText THEN Returns("paragraph", "paragraph", 1)
        ELSE Returns("paragraph", "none", 0)

(***************************************************************************)
(* Inputs                                                                   *)
(***************************************************************************)
\* Heading texts come out of getTextContent: white space normalised, trimmed
HeadingChars == {"a", "b", SP}
HeadingTexts == {t \in SeqsUpTo(HeadingChars, MaxTextLen) : Trim(t) = t}

\* Lines a directive block's text is made of
DirectiveLines ==
    { <<>>,                               \* empty line
      <<SP>>,                             \* white-space line
      <<"[", "p", "]">>,                  \* [p]
      <<"[", "q", "]">>,                  \* [q]
      <<"[", "]">>,                       \* []
      <<":", "l", ":">>,                  \* :l:
      <<":", "l", ":", SP, "v">>,         \* :l: v
      <<":", "m", "-", "1", ":", "w">>,   \* :m-1:w
      <<"b">>,                            \* b
      <<SP, SP, "c">> }                   \* indented body line

DirectiveStyles == { RST_STYLE_PREFIX \o <<"n">>, RST_STYLE_PREFIX \o <<"c", "-", "b">> }

DirectiveContents(n) == {Join(ls, <<NL>>) : ls \in [1..n -> DirectiveLines]}

NoArgument == [defined |-> FALSE, value |-> <<>>]
NoDirective == [name |-> <<>>, argument |-> NoArgument, options |-> <<>>, content |-> <<>>]

\* margin-left of a Word list paragraph: none, 1.0in, 108pt
ListMargins == { <<>>, <<[n |-> 100, unit |-> "in"]>>, <<[n |-> 10800, unit |-> "pt"]>> }

\* the marker of a Word list paragraph: a Symbol-font bullet, or a number
ListMarkers == { [marker |-> <<MIDDOT>>, symbolFont |-> TRUE],
                 [marker |-> <<"1", ".">>, symbolFont |-> FALSE] }

DigitChars == <<"1", "2", "3", "4", "5", "6", "7", "8", "9">>

\* the text of the k-th list paragraph
ItemText(k) == <<SP, "t", DigitChars[k]>>
\* and the content parseWordListItem extracts from it
ItemContent(k) == <<"t", DigitChars[k]>>

WordListBlock(margin, m, k) ==
    [kind |-> "wordlist", margin |-> margin, marker |-> m.marker,
     symbolFont |-> m.symbolFont, text |-> ItemText(k)]

\* documents made of n consecutive Word list paragraphs
ListDocuments(n) ==
    { [k \in 1..n |-> WordListBlock(ms[k], ks[k], k)] :
        ms \in [1..n -> ListMargins], ks \in [1..n -> ListMarkers] }

NoTableOptions ==
    [caption |-> <<>>, tableNumber |-> <<>>, name |-> <<>>, align |-> <<>>, width |-> <<>>,
     widths |-> NoWidths, class |-> <<>>, hasHeader |-> FALSE]
OneCellRows == << [cells |-> << [content |-> <<"a">>, align |-> ""] >>, isHeader |-> FALSE] >>
StyleN == RST_STYLE_PREFIX \o <<"n">>
StyleW == RST_STYLE_PREFIX \o <<"w">>

\* the blocks mixed documents are made of
PostBlocks ==
    { [kind |-> "directive", style |-> StyleN, text |-> <<"x">>],
      [kind |-> "directive", style |-> StyleN, text |-> <<"[", "p", "]">> \o <<NL>> \o <<"y">>],
      [kind |-> "directive", style |-> StyleN, text |-> <<":", "l", ":">>],
      [kind |-> "directive", style |-> StyleW, text |-> <<"z">>],
      [kind |-> "paragraph", style |-> <<"N", "o", "r", "m", "a", "l">>, text |-> <<"q">>],
      [kind |-> "paragraph", style |-> <<"N", "o", "r", "m", "a", "l">>, text |-> <<SP>>],
      [kind |-> "paragraph", style |-> <<"N", "o", "r", "m", "a", "l">>, text |-> <<"T", "a", "b", "l", "e", SP, "1", ":", SP, "S">>],
      [kind |-> "paragraph", style |-> <<"C", "a", "p", "t", "i", "o", "n">>, text |-> <<"F", "i", "g", ".", SP, "2", SP, "-", SP, "F">>],
      [kind |-> "table", rows |-> OneCellRows, options |-> NoTableOptions],
      [kind |-> "table", rows |-> OneCellRows,
       options |-> [NoTableOptions EXCEPT !.caption = <<"P">>]],
      [kind |-> "paragraph", style |-> <<"N", "o", "r", "m", "a", "l">>, text |-> <<"T", "a", "b", "l", "e", SP>>],
      [kind |-> "paragraph", style |-> <<"C", "a", "p", "t", "i", "o", "n">>, text |-> <<"T", "a", "b", "l", "e", SP, "2", ".", "1", ":", SP, "U">>],
      [kind |-> "figureTag", figcaption |-> <<>>, centered |-> FALSE,
       src |-> <<"h", "t", "t", "p", "s", ":", "/", "/", "h", "/", "i", ".", "p", "n", "g">>, alt |-> <<>>],
      [kind |-> "figureTag", figcaption |-> << <<"F", "i", "g", "u", "r", "e", SP, "3", ":", SP, "G">> >>, centered |-> FALSE,
       src |-> <<"d", "a", "t", "a", ":", "i", "m", "a", "g", "e", "/", "j", "p", "e", "g", ";", "b", "a", "s", "e", "6", "4", ",", "Q", "Q">>, alt |-> <<"a">>],
      [kind |-> "imagePara", centered |-> TRUE, src |-> <<"b", "l", "o", "b", ":", "x">>, alt |-> <<>>],
      [kind |-> "imagePara", centered |-> FALSE, src |-> <<"d", "a", "t", "a", ":", "i", "m", "a", "g", "e", "/", "p", "n", "g", ";", "b", "a", "s", "e", "6", "4", ",">>,
       alt |-> <<>>],
      [kind |-> "heading", level |-> 2, text |-> <<"h">>],
      WordListBlock(<<>>, [marker |-> <<MIDDOT>>, symbolFont |-> TRUE], 1),
      WordListBlock(<<[n |-> 100, unit |-> "in"]>>,
                    [marker |-> <<"1", ".">>, symbolFont |-> FALSE], 2),
      [kind |-> "list", tag |-> "UL",
       items |-> << [text |-> <<"u">>, nested |-> <<>>],
                    [text |-> <<"v">>,
                     nested |-> << [kind |-> "list", tag |-> "OL",
                                    items |-> << [text |-> <<"w">>,
                                                  nested |-> <<>>] >>] >>] >>],
      [kind |-> "list", tag |-> "UL", items |-> <<>>] }

PostDocuments(n) == [1..n -> PostBlocks]

\* an optional string option: absent, or the value v
Opt(v) == {<<>>, v}

\* ImageOptions with every option absent or set
ImageOptionSets ==
    [uri : {<<"u">>}, alt : Opt(<<"a">>), height : Opt(<<"h">>), width : Opt(<<"w">>),
     scale : Opt(<<"7">>), align : {<<>>, <<"c", "e", "n", "t", "e", "r">>, <<"t", "o", "p">>}, target : Opt(<<"t">>),
     class : Opt(<<"k">>), name : Opt(<<"n">>), loading : Opt(<<"l", "a", "z", "y">>)]

\* the FigureOptions that extend the ImageOptions o
FigureOptionSets(o) ==
    { Spread(o, f) :
        f \in [caption : Opt(<<"c">>), legend : Opt(<<"l", NL, "m">>),
               figwidth : Opt(<<"g">>), figclass : Opt(<<"d">>), figname : Opt(<<"f">>),
               figureNumber : Opt(<<"1">>)] }

\* images and figures whose image was extracted to a file, or is a URL
ExtractedImages ==
    { [type |-> "image", options |-> [NoImageOptions EXCEPT !.uri = u],
       imageData |-> ImageNumbered(1, <<"p", "n", "g">>, <<>>)] :
        u \in {<<"u">>, <<"h", "t", "t", "p", ":", "x">>} }

TableWidths ==
    { NoWidths,
      [defined |-> TRUE, isArray |-> FALSE, text |-> <<"a", "u", "t", "o">>, numbers |-> <<>>],
      [defined |-> TRUE, isArray |-> TRUE, text |-> <<>>, numbers |-> <<<<"1">>, <<"2">>>>] }

TableOptionSets ==
    [caption : Opt(<<"c">>), tableNumber : Opt(<<"1">>), align : Opt(<<"l", "e", "f", "t">>),
     width : Opt(<<"w">>), widths : TableWidths, class : Opt(<<"k">>),
     name : Opt(<<"n">>), hasHeader : {FALSE}]

ContentsOptionSets ==
    [title : Opt(<<"T">>), depth : {<<>>, <<0>>, <<2>>}, local : BOOLEAN,
     backlinks : Opt(<<"t", "o", "p">>), class : Opt(<<"k">>)]


\* the blocks of the converted documents: an empty and a titled heading, a
\* paragraph, a directive, a list without items and one with an item, image
\* paragraphs with a blob URL, a data URL and an external URL, a table, and a
\* BLOCKQUOTE of two lines, and a paragraph that is a field line
ConvertBlocks ==
    { [kind |-> "heading", level |-> 1, text |-> <<>>],
      [kind |-> "heading", level |-> 2, text |-> <<"h">>],
      [kind |-> "paragraph", style |-> <<"N", "o", "r", "m", "a", "l">>, text |-> <<"q">>],
      [kind |-> "directive", style |-> StyleN, text |-> <<"x">>],
      [kind |-> "list", tag |-> "UL", items |-> <<>>],
      [kind |-> "list", tag |-> "OL", items |-> << [text |-> <<"u">>, nested |-> <<>>] >>],
      [kind |-> "imagePara", centered |-> FALSE, src |-> <<"b", "l", "o", "b", ":", "x", ".", "g", "i", "f">>, alt |-> <<>>],
      [kind |-> "imagePara", centered |-> TRUE, src |-> <<"d", "a", "t", "a", ":", "i", "m", "a", "g", "e", "/", "p", "n", "g", ";", "b", "a", "s", "e", "6", "4", ",", "Q", "Q">>,
       alt |-> <<"a">>],
      [kind |-> "imagePara", centered |-> FALSE, src |-> <<"h", "t", "t", "p", ":", "/", "/", "h", "/", "i", ".", "p", "n", "g">>, alt |-> <<>>],
      [kind |-> "table", rows |-> OneCellRows, options |-> NoTableOptions],
      [kind |-> "blockquote", style |-> <<"N", "o", "r", "m", "a", "l">>, text |-> <<"q", NL, "r">>],
      [kind |-> "paragraph", style |-> <<"N", "o", "r", "m", "a", "l">>, text |-> <<"N", ":", ":">>] }

\* the longest converted document
MaxConvertBlocks == 2

ConvertDocuments(n) == [1..n -> ConvertBlocks]

\* the day of the conversion
Dates == { <<"2", "0", "2", "6", "-", "0", "1", "-", "0", "1">> }

\* the message of the TypeError thrown on a list without items
TypeErrorMessage == <<"C", "a", "n", "n", "o", "t", SP, "r", "e", "a", "d", SP, "p", "r", "o", "p", "e", "r", "t", "i", "e", "s", SP, "o", "f", SP, "u", "n", "d", "e", "f", "i", "n", "e", "d">>

\* the most img elements in a node
MaxImgs == 2

\* class attributes: none, a paragraph style, a directive style, a TOC style,
\* a heading style, a quote style, a caption style, the list paragraph style
\* alone and with a caption class, the grid style of content tables, and
\* directive styles in other letter cases
NodeClasses ==
    { <<>>, <<"M", "s", "o", "N", "o", "r", "m", "a", "l">>, <<"r", "s", "t", "_", "n", "o", "t", "e">>, <<"M", "s", "o", "T", "o", "c", "1">>, <<"M", "s", "o", "H", "e", "a", "d", "i", "n", "g", "3">>,
      <<"M", "s", "o", "Q", "u", "o", "t", "e">>, <<"M", "s", "o", "C", "a", "p", "t", "i", "o", "n">>, <<"M", "s", "o", "L", "i", "s", "t", "P", "a", "r", "a", "g", "r", "a", "p", "h">>,
      <<"M", "s", "o", "L", "i", "s", "t", "P", "a", "r", "a", "g", "r", "a", "p", "h", SP, "c", "a", "p", "t", "i", "o", "n">>, <<"M", "s", "o", "T", "a", "b", "l", "e", "G", "r", "i", "d">>,
      <<"r", "s", "t", "_", "N", "o", "t", "e">>, <<"R", "S", "T", "_", "n", "o", "t", "e">> }

\* the block elements getBlockElements collects, without nested tables, and
\* without a caption next to the node
Nodes ==
    [tag : {"P", "H2", "TABLE", "UL", "FIGURE", "BLOCKQUOTE"},
     className : NodeClasses,
     imgs : 0..MaxImgs,
     cellpadding : {<<>>, <<"0">>},
     cellspacing : {<<>>, <<"0">>},
     hasText : BOOLEAN,
     centered : BOOLEAN]

\* the most handleRefresh calls in one session of the task pane
MaxRefreshes == 3

\* what a refresh is requested by: the refresh button, the retry button of
\* the error state, the Ctrl+R shortcut
RefreshSources == {"button", "retry", "shortcut"}

\* the RST a conversion returns: empty or not
RstOutcomes == { <<>>, <<"r">> }

\* the positions at which an execution of handleRefresh is suspended: at
\* context.sync(), at convertToRstAsync, at the end of Word.run
InProgress == {"sync", "convert", "closing"}

\* showState: the state displayed and the buttons disabled
showState(state) ==
    [displayed |-> state,
     refreshDisabled |-> state = "loading",
     copyDisabled |-> state = "loading" \/ state # "preview",
     exportDisabled |-> state = "loading" \/ state # "preview"]

\* the guard of handleRefresh, with the guard never taken
AlreadyLoading_Never(loading) == FALSE

\* the guard of handleRefresh: if (isLoading) return
AlreadyLoading(loading) == loading

\* the task pane as initializeUI leaves it: nothing converted, the empty
\* state of the page displayed
TaskpaneIdle ==
    /\ isLoading = FALSE
    /\ refreshes = <<>>
    /\ ui = showState("empty")
    /\ pane = [status |-> "Ready", preview |-> <<>>, error |-> ""]
    /\ currentRst = <<>>

\* the most ribbon command invocations in one session
MaxInvocations == 2

\* the ribbon commands, and the two files that define them
Commands == {"exportToRst", "copyRstToClipboard"}
CommandFiles == {"commands.ts", "part_002"}

\* the inline pictures of the document exportToRst of part_002 loads: none,
\* or two
PictureCounts == {0, 2}

\* an invocation as the command starts: Word.run up to context.sync()
Invoked(command, file, pictures) ==
    [command |-> command, file |-> file, pc |-> "sync", completed |-> 0,
     pictures |-> pictures, rst |-> <<>>, path |-> "running"]

\* event.completed() at the end of the command
Complete(inv, path) ==
    [inv EXCEPT !.completed = @ + 1, !.pc = "done", !.path = path]

\* the catch block of the command, then event.completed()
Caught(inv) == Complete(inv, "failed")

\* copyRstToClipboard of part_002 on an empty result, without the call of
\* event.completed()
AfterEmptyRst_NoCompleted(inv) == [inv EXCEPT !.pc = "done", !.path = "empty"]

\* copyRstToClipboard of part_002 on an empty result: event.completed() and
\* return
AfterEmptyRst(inv) == Complete(inv, "empty")

\* the export of a result: exportAsZip is awaited when there are images,
\* else downloadRstFile runs, and may throw
Exported(inv) ==
    { [inv EXCEPT !.pc = "zip"], [inv EXCEPT !.pc = "closing"], Caught(inv) }

\* what follows a conversion that returned or threw
Converted(inv) ==
    IF inv.command = "exportToRst" THEN Exported(inv) \cup {Caught(inv)}
    ELSE { [inv EXCEPT !.rst = rst, !.pc = IF inv.file = "part_002" THEN "closing" ELSE "clipboard"] :
             rst \in RstOutcomes } \cup {Caught(inv)}

\* what follows the first context.sync(): commands.ts converts at once,
\* part_002 loads the pictures or awaits convertToRstAsync
Synced(inv) ==
    {Caught(inv)} \cup
    IF inv.file = "commands.ts" THEN Converted(inv)
    ELSE IF inv.pictures > 0 THEN { [inv EXCEPT !.pc = "picture"] }
    ELSE { [inv EXCEPT !.pc = "convert"] }

\* what follows the context.sync() of one picture of the loop of exportToRst
PictureSynced(inv) ==
    { Caught(inv),
      [inv EXCEPT !.pictures = @ - 1, !.pc = IF inv.pictures = 1 THEN "convert" ELSE "picture"] }

\* what follows exportAsZip
Zipped(inv) == { Caught(inv), [inv EXCEPT !.pc = "closing"] }

\* what follows Word.run
Closed(inv) ==
    {Caught(inv)} \cup
    IF inv.file = "part_002" /\ inv.command = "copyRstToClipboard"
    THEN IF inv.rst = <<>> THEN {AfterEmptyRst(inv)} ELSE { [inv EXCEPT !.pc = "clipboard"] }
    ELSE {Complete(inv, "success")}

\* what follows navigator.clipboard.writeText: inside Word.run in
\* commands.ts; in part_002 a failure falls back to downloadTextFile, which
\* may throw
ClipboardWritten(inv) ==
    IF inv.file = "commands.ts" THEN { [inv EXCEPT !.pc = "closing"], Caught(inv) }
    ELSE { Complete(inv, "success"), Complete(inv, "fallback"), Caught(inv) }

CommandsIdle == invocations = <<>>

AddinIdle == TaskpaneIdle /\ CommandsIdle

ClassifyIdle ==
    /\ node = [tag |-> "none"]
    /\ kind = [rule |-> "none"]

PostIdle ==
    /\ blocks = <<>>
    /\ elements = <<>>
    /\ pi = 0
    /\ result = <<>>

\* cell texts: one with a hard line break, one that wraps at the width limit,
\* one unbreakable word longer than the limit; a row shorter than the widest
\* row has empty cells
WrappingText == <<"a", "a", "a", "a", SP, "b", "b", "b", "b", SP, "c", "c", "c", "c", SP, "d", "d", "d", "d", SP, "e", "e", "e", "e", SP, "f", "f", "f", "f", SP, "g", "g", "g", "g", SP, "h", "h", "h", "h", SP, "i", "i", "i", "i">>
LongWord == Repeat("x", MaxWidth + 2)
TableCells ==
    { [content |-> <<"a", NL, "c", "d">>, align |-> "right"],
      [content |-> WrappingText, align |-> "center"],
      [content |-> LongWord, align |-> ""] }

TableRows == [cells : SeqsUpTo(TableCells, MaxCols), isHeader : BOOLEAN]

RECURSIVE CellCount(_)
\* the number of cells of a table
CellCount(rows) ==
    IF Len(rows) = 0 THEN 0 ELSE Len(Head(rows).cells) + CellCount(Tail(rows))

\* tables of n rows and at most MaxCells cells
Tables(n) == {rows \in [1..n -> TableRows] : CellCount(rows) <= MaxCells}

TableIdle ==
    /\ tableData = [rows |-> <<>>, options |-> [hasHeader |-> FALSE]]
    /\ columnWidths = <<>>
    /\ grid = <<>>

ElementIdle ==
    /\ elem = [type |-> "unknown"]
    /\ elemText = <<>>

NoConversion == [rst |-> <<>>, images |-> <<>>, warnings |-> <<>>]

ConvertIdle ==
    /\ api = "convertToRst"
    /\ copts = [includeMetadata |-> FALSE, addGeneratedComment |-> FALSE]
    /\ metadata = [title |-> <<>>]
    /\ images = <<>>
    /\ conversion = NoConversion

HeadingIdle ==
    /\ heading = [level |-> 1, text |-> <<>>]
    /\ options = DEFAULT_OPTIONS
    /\ formatted = <<>>

DirectiveIdle ==
    /\ styleName = RST_STYLE_PREFIX
    /\ content = <<>>
    /\ lines = <<>>
    /\ i = 0
    /\ argument = NoArgument
    /\ dopts = <<>>
    /\ bodyLines = <<>>
    /\ inBody = FALSE
    /\ directive = NoDirective
    /\ rendered = <<>>

(***************************************************************************)
(* Heading formatter                                                        *)
(***************************************************************************)
InitHeading ==
    /\ pc = "heading"
    /\ heading \in [level : {ClampLevel(l) : l \in 0..9}, text : HeadingTexts]
    /\ options \in [lineWidth : {DEFAULT_OPTIONS.lineWidth}, titleOverline : BOOLEAN,
                     indentSize : {DEFAULT_OPTIONS.indentSize}]
    /\ formatted = <<>>
    /\ DirectiveIdle
    /\ PostIdle
    /\ TableIdle
    /\ ElementIdle
    /\ ConvertIdle
    /\ ClassifyIdle
    /\ AddinIdle

FormatHeading ==
    /\ pc = "heading"
    /\ formatted' = formatHeading(heading, options)
    /\ pc' = "headingDone"
    /\ UNCHANGED <<heading, options, dvars, pvars, tvars, xvars>>

(***************************************************************************)
(* parseCustomDirective, one loop iteration per step, then                  *)
(* generateCustomDirective                                                  *)
(***************************************************************************)
InitDirective ==
    /\ pc = "directive"
    /\ styleName \in DirectiveStyles
    /\ \E n \in 0..MaxLines : content \in DirectiveContents(n)
    /\ lines = <<>>
    /\ i = 0
    /\ argument = NoArgument
    /\ dopts = <<>>
    /\ bodyLines = <<>>
    /\ inBody = FALSE
    /\ directive = NoDirective
    /\ rendered = <<>>
    /\ HeadingIdle
    /\ PostIdle
    /\ TableIdle
    /\ ElementIdle
    /\ ConvertIdle
    /\ ClassifyIdle
    /\ AddinIdle

\* const lines = content.split('\n'); the locals are initialised
ParseBegin ==
    /\ pc = "directive"
    /\ lines' = Split(content, NL)
    /\ i' = 1
    /\ pc' = "parseLoop"
    /\ UNCHANGED <<styleName, content, argument, dopts, bodyLines, inBody,
                   directive, rendered, hvars, pvars, tvars, xvars>>

\* one iteration of the for loop over lines
ParseLine ==
    /\ pc = "parseLoop"
    /\ i <= Len(lines)
    /\ LET st == parseLineBody(argument, dopts, bodyLines, inBody, lines[i])
       IN  /\ argument' = st.argument
           /\ dopts' = st.options
           /\ bodyLines' = st.bodyLines
           /\ inBody' = st.inBody
    /\ i' = i + 1
    /\ UNCHANGED <<pc, styleName, content, lines, directive, rendered, hvars, pvars, tvars, xvars>>

\* after the loop: trimBodyContent and the returned CustomDirective
ParseReturn ==
    /\ pc = "parseLoop"
    /\ i > Len(lines)
    /\ directive' = [name |-> extractDirectiveName(styleName),
                     argument |-> argument,
                     options |-> dopts,
                     content |-> trimBodyContent(bodyLines)]
    /\ pc' = "parsed"
    /\ UNCHANGED <<styleName, content, lines, i, argument, dopts, bodyLines,
                   inBody, rendered, hvars, pvars, tvars, xvars>>

\* formatDirective: generateCustomDirective(element.directive)
GenerateDirective ==
    /\ pc = "parsed"
    /\ rendered' = generateCustomDirective(directive)
    /\ pc' = "rendered"
    /\ UNCHANGED <<styleName, content, lines, i, argument, dopts, bodyLines,
                   inBody, directive, hvars, pvars, tvars, xvars>>

(***************************************************************************)
(* parseWordHtml: the blocks are parsed, then postProcessElements runs, one *)
(* loop iteration per step                                                  *)
(***************************************************************************)
InitList ==
    /\ pc = "parse"
    /\ \E n \in 1..MaxItems : blocks \in ListDocuments(n)
    /\ elements = <<>>
    /\ pi = 0
    /\ result = <<>>
    /\ HeadingIdle
    /\ DirectiveIdle
    /\ TableIdle
    /\ ElementIdle
    /\ ConvertIdle
    /\ ClassifyIdle
    /\ AddinIdle

InitPost ==
    /\ pc = "parse"
    /\ \E n \in 0..MaxBlocks : blocks \in PostDocuments(n)
    /\ elements = <<>>
    /\ pi = 0
    /\ result = <<>>
    /\ HeadingIdle
    /\ DirectiveIdle
    /\ TableIdle
    /\ ElementIdle
    /\ ConvertIdle
    /\ ClassifyIdle
    /\ AddinIdle

\* the loop over the blocks, and the entry into postProcessElements
ParseBlocks ==
    /\ pc = "parse"
    /\ elements' = ParseBlocksFrom(blocks, 1)
    /\ images' = ImagesFrom(blocks, 1)
    /\ pi' = 1
    /\ pc' = "post"
    /\ UNCHANGED <<blocks, result, hvars, dvars, tvars, elem, elemText, nvars, api, copts,
                   metadata, conversion, uvars>>

\* one iteration of the loop of postProcessElements
PostIterate ==
    /\ pc = "post"
    /\ pi <= Len(elements)
    /\ LET r == postProcessIteration(result, elements[pi])
       IN  /\ ~r.threw
           /\ result' = r.result
    /\ pi' = pi + 1
    /\ UNCHANGED <<pc, blocks, elements, hvars, dvars, tvars, xvars>>

\* an iteration that reads a field of the missing first item throws
PostThrow ==
    /\ pc = "post"
    /\ pi <= Len(elements)
    /\ postProcessIteration(result, elements[pi]).threw
    /\ pc' = "postThrew"
    /\ UNCHANGED <<blocks, elements, pi, result, hvars, dvars, tvars, xvars>>

\* return result
PostReturn ==
    /\ pc = "post"
    /\ pi > Len(elements)
    /\ pc' = "postDone"
    /\ UNCHANGED <<blocks, elements, pi, result, hvars, dvars, tvars, xvars>>

(***************************************************************************)
(* generateGridTable                                                        *)
(***************************************************************************)
InitTable ==
    /\ pc = "table"
    /\ \E n \in 0..MaxRows :
          tableData \in [rows : Tables(n), options : [hasHeader : BOOLEAN]]
    /\ columnWidths = <<>>
    /\ grid = <<>>
    /\ HeadingIdle
    /\ DirectiveIdle
    /\ PostIdle
    /\ ElementIdle
    /\ ConvertIdle
    /\ ClassifyIdle
    /\ AddinIdle

GenerateGridTable ==
    /\ pc = "table"
    /\ columnWidths' = calculateColumnWidths(tableData.rows)
    /\ grid' = generateGridTable(tableData.rows, tableData.options.hasHeader)
    /\ pc' = "tableDone"
    /\ UNCHANGED <<tableData, hvars, dvars, pvars, xvars>>

(***************************************************************************)
(* formatElement on one image, figure, table or contents element            *)
(***************************************************************************)
InitGenerate ==
    /\ pc = "element"
    /\ \/ elem \in [type : {"image"}, options : ImageOptionSets]
       \/ elem \in ExtractedImages
       \/ \E o \in ImageOptionSets : elem \in [type : {"figure"}, options : FigureOptionSets(o)]
       \/ elem \in [type : {"table"}, data : [rows : {OneCellRows}, options : TableOptionSets]]
       \/ elem \in [type : {"toc"}, options : ContentsOptionSets]
    /\ elemText = <<>>
    /\ HeadingIdle
    /\ DirectiveIdle
    /\ PostIdle
    /\ TableIdle
    /\ ConvertIdle
    /\ ClassifyIdle
    /\ AddinIdle

FormatElement ==
    /\ pc = "element"
    /\ elemText' = formatElement(elem, options)
    /\ pc' = "elementDone"
    /\ UNCHANGED <<elem, cvars, nvars, hvars, dvars, pvars, tvars, uvars>>

(***************************************************************************)
(* convertToRst and convertToRstAsync: parseWordHtml in a try block, then   *)
(* formatDocument; the async entry point then resolves the blob URLs        *)
(***************************************************************************)
InitConvert ==
    /\ pc = "parse"
    /\ api \in {"convertToRst", "convertToRstAsync"}
    /\ copts \in [includeMetadata : BOOLEAN, addGeneratedComment : BOOLEAN]
    /\ metadata \in [title : Opt(<<"T">>)]
    /\ \E n \in 0..MaxConvertBlocks : blocks \in ConvertDocuments(n)
    /\ elements = <<>>
    /\ pi = 0
    /\ result = <<>>
    /\ images = <<>>
    /\ conversion = NoConversion
    /\ HeadingIdle
    /\ DirectiveIdle
    /\ TableIdle
    /\ ElementIdle
    /\ ClassifyIdle
    /\ AddinIdle

\* the catch block: parseWordHtml threw
ConvertCatch ==
    /\ pc = "postThrew"
    /\ \E date \in Dates :
          conversion' = convertToRst(TRUE, TypeErrorMessage, <<>>, <<>>, options,
                                     copts, metadata, date)
    /\ pc' = IF api = "convertToRst" THEN "returned" ELSE "resolve"
    /\ UNCHANGED <<api, copts, metadata, images, elem, elemText, nvars, hvars, dvars, pvars, tvars, uvars>>

\* parseWordHtml returned: the elements are formatted and the result returned
ConvertReturn ==
    /\ pc = "postDone"
    /\ \E date \in Dates :
          conversion' = convertToRst(FALSE, <<>>, result, images, options,
                                     copts, metadata, date)
    /\ pc' = IF api = "convertToRst" THEN "returned" ELSE "resolve"
    /\ UNCHANGED <<api, copts, metadata, images, elem, elemText, nvars, hvars, dvars, pvars, tvars, uvars>>

\* convertToRstAsync: resolveBlobUrls on the result of convertToRst
ResolveBlobUrls ==
    /\ pc = "resolve"
    /\ \E fetched \in [1..Len(conversion.images) -> {<<>>, << <<"Q", "Q">> >>}] :
          /\ \A k \in 1..Len(conversion.images) :
                fetched[k] \in FetchOutcomes(conversion.images[k])
          /\ conversion' = resolveBlobUrls(conversion, fetched)
    /\ pc' = "returned"
    /\ UNCHANGED <<api, copts, metadata, images, elem, elemText, nvars, hvars, dvars, pvars, tvars, uvars>>

(***************************************************************************)
(* parseElement on one block element                                        *)
(***************************************************************************)
InitClassify ==
    /\ pc = "node"
    /\ node \in Nodes
    /\ kind = [rule |-> "none"]
    /\ HeadingIdle
    /\ DirectiveIdle
    /\ PostIdle
    /\ TableIdle
    /\ ElementIdle
    /\ ConvertIdle
    /\ AddinIdle

ParseElement ==
    /\ pc = "node"
    /\ kind' = parseElementBranch(node)
    /\ pc' = "nodeDone"
    /\ UNCHANGED <<node, elem, elemText, cvars, hvars, dvars, pvars, tvars, uvars>>

InitRefresh ==
    /\ pc = "taskpane"
    /\ TaskpaneIdle
    /\ CommandsIdle
    /\ HeadingIdle
    /\ DirectiveIdle
    /\ PostIdle
    /\ TableIdle
    /\ ElementIdle
    /\ ConvertIdle
    /\ ClassifyIdle

\* whether the event that calls handleRefresh can be dispatched: a disabled
\* button receives no click, the retry button is inside the error state
Dispatchable(source) ==
    CASE source = "button" -> ~ui.refreshDisabled
      [] source = "retry" -> ui.displayed = "error"
      [] OTHER -> TRUE

\* handleRefresh up to its first await: the guard, isLoading = true,
\* showState('loading'), setStatus, Word.run up to context.sync()
HandleRefresh ==
    /\ pc = "taskpane"
    /\ Len(refreshes) < MaxRefreshes
    /\ \E source \in RefreshSources :
          /\ Dispatchable(source)
          /\ IF AlreadyLoading(isLoading)
             THEN /\ refreshes' = Append(refreshes, [source |-> source, pc |-> "returned"])
                  /\ UNCHANGED <<isLoading, ui, pane, currentRst>>
             ELSE /\ isLoading' = TRUE
                  /\ ui' = showState("loading")
                  /\ pane' = [pane EXCEPT !.status = "Converting..."]
                  /\ refreshes' = Append(refreshes, [source |-> source, pc |-> "sync"])
                  /\ UNCHANGED currentRst
    /\ UNCHANGED <<pc, hvars, dvars, pvars, tvars, elem, elemText, cvars, nvars, kvars>>

\* the catch and finally blocks of handleRefresh for execution k: showError,
\* the error text in the preview, showState('preview'), isLoading = false
RefreshCaught(k, message) ==
    /\ ui' = showState("preview")
    /\ pane' = [status |-> "Error", preview |-> <<"E">>, error |-> message]
    /\ isLoading' = FALSE
    /\ refreshes' = [refreshes EXCEPT ![k].pc = "failed"]
    /\ UNCHANGED currentRst

\* context.sync() settles: the callback goes on to convertToRstAsync, or
\* Word.run rejects
RefreshSync ==
    /\ pc = "taskpane"
    /\ \E k \in 1..Len(refreshes) :
          /\ refreshes[k].pc = "sync"
          /\ \/ /\ refreshes' = [refreshes EXCEPT ![k].pc = "convert"]
                /\ UNCHANGED <<isLoading, ui, pane, currentRst>>
             \/ RefreshCaught(k, "Error: sync")
    /\ UNCHANGED <<pc, hvars, dvars, pvars, tvars, elem, elemText, cvars, nvars, kvars>>

\* convertToRstAsync settles: the preview, showState('preview') and the
\* status are set, or the conversion threw
RefreshConvert ==
    /\ pc = "taskpane"
    /\ \E k \in 1..Len(refreshes) :
          /\ refreshes[k].pc = "convert"
          /\ \/ \E rst \in RstOutcomes :
                   /\ currentRst' = rst
                   /\ ui' = showState("preview")
                   /\ pane' = [pane EXCEPT !.status = "Preview updated",
                                           !.preview = IF rst = <<>> THEN <<"(">> ELSE rst]
                   /\ refreshes' = [refreshes EXCEPT ![k].pc = "closing"]
                   /\ UNCHANGED isLoading
             \/ RefreshCaught(k, "Error: convert")
    /\ UNCHANGED <<pc, hvars, dvars, pvars, tvars, elem, elemText, cvars, nvars, kvars>>

\* Word.run settles after the callback: the finally block alone, or the
\* catch block first
RefreshEnd ==
    /\ pc = "taskpane"
    /\ \E k \in 1..Len(refreshes) :
          /\ refreshes[k].pc = "closing"
          /\ \/ /\ isLoading' = FALSE
                /\ refreshes' = [refreshes EXCEPT ![k].pc = "done"]
                /\ UNCHANGED <<ui, pane, currentRst>>
             \/ RefreshCaught(k, "Error: run")
    /\ UNCHANGED <<pc, hvars, dvars, pvars, tvars, elem, elemText, cvars, nvars, kvars>>

InitCommands ==
    /\ pc = "commands"
    /\ TaskpaneIdle
    /\ CommandsIdle
    /\ HeadingIdle
    /\ DirectiveIdle
    /\ PostIdle
    /\ TableIdle
    /\ ElementIdle
    /\ ConvertIdle
    /\ ClassifyIdle

\* a ribbon button calls its command with a new event
InvokeCommand ==
    /\ pc = "commands"
    /\ Len(invocations) < MaxInvocations
    /\ \E command \in Commands, file \in CommandFiles :
          \E pictures \in IF command = "exportToRst" /\ file = "part_002" THEN PictureCounts ELSE {0} :
              invocations' = Append(invocations, Invoked(command, file, pictures))
    /\ UNCHANGED <<pc, hvars, dvars, pvars, tvars, elem, elemText, cvars, nvars, rvars>>

\* the first context.sync() of an invocation settles
CommandSync ==
    /\ pc = "commands"
    /\ \E k \in 1..Len(invocations) :
          /\ invocations[k].pc = "sync"
          /\ \E next \in Synced(invocations[k]) : invocations' = [invocations EXCEPT ![k] = next]
    /\ UNCHANGED <<pc, hvars, dvars, pvars, tvars, elem, elemText, cvars, nvars, rvars>>

\* the context.sync() of one picture settles
PictureSync ==
    /\ pc = "commands"
    /\ \E k \in 1..Len(invocations) :
          /\ invocations[k].pc = "picture"
          /\ \E next \in PictureSynced(invocations[k]) : invocations' = [invocations EXCEPT ![k] = next]
    /\ UNCHANGED <<pc, hvars, dvars, pvars, tvars, elem, elemText, cvars, nvars, rvars>>

\* convertToRstAsync settles
CommandConvert ==
    /\ pc = "commands"
    /\ \E k \in 1..Len(invocations) :
          /\ invocations[k].pc = "convert"
          /\ \E next \in Converted(invocations[k]) : invocations' = [invocations EXCEPT ![k] = next]
    /\ UNCHANGED <<pc, hvars, dvars, pvars, tvars, elem, elemText, cvars, nvars, rvars>>

\* exportAsZip settles
ExportZip ==
    /\ pc = "commands"
    /\ \E k \in 1..Len(invocations) :
          /\ invocations[k].pc = "zip"
          /\ \E next \in Zipped(invocations[k]) : invocations' = [invocations EXCEPT ![k] = next]
    /\ UNCHANGED <<pc, hvars, dvars, pvars, tvars, elem, elemText, cvars, nvars, rvars>>

\* Word.run settles after its callback
WordRunCloses ==
    /\ pc = "commands"
    /\ \E k \in 1..Len(invocations) :
          /\ invocations[k].pc = "closing"
          /\ \E next \in Closed(invocations[k]) : invocations' = [invocations EXCEPT ![k] = next]
    /\ UNCHANGED <<pc, hvars, dvars, pvars, tvars, elem, elemText, cvars, nvars, rvars>>

\* navigator.clipboard.writeText settles
ClipboardWrite ==
    /\ pc = "commands"
    /\ \E k \in 1..Len(invocations) :
          /\ invocations[k].pc = "clipboard"
          /\ \E next \in ClipboardWritten(invocations[k]) : invocations' = [invocations EXCEPT ![k] = next]
    /\ UNCHANGED <<pc, hvars, dvars, pvars, tvars, elem, elemText, cvars, nvars, rvars>>

vars == <<pc, hvars, dvars, pvars, tvars, xvars>>

NextTable == GenerateGridTable

SpecTable == InitTable /\ [][NextTable]_vars


NextList == ParseBlocks \/ PostIterate \/ PostReturn

SpecList == InitList /\ [][NextList]_vars

NextPost == ParseBlocks \/ PostIterate \/ PostThrow \/ PostReturn

SpecPost == InitPost /\ [][NextPost]_vars


NextGenerate == FormatElement

SpecGenerate == InitGenerate /\ [][NextGenerate]_vars

NextConvert ==
    \/ ParseBlocks \/ PostIterate \/ PostThrow \/ PostReturn
    \/ ConvertCatch \/ ConvertReturn \/ ResolveBlobUrls

SpecConvert == InitConvert /\ [][NextConvert]_vars

NextClassify == ParseElement

SpecClassify == InitClassify /\ [][NextClassify]_vars

NextRefresh == HandleRefresh \/ RefreshSync \/ RefreshConvert \/ RefreshEnd

SpecRefresh == InitRefresh /\ [][NextRefresh]_vars

\* the steps that resume an invocation when the promise it awaits settles
CommandSteps ==
    \/ CommandSync
    \/ PictureSync
    \/ CommandConvert
    \/ ExportZip
    \/ WordRunCloses
    \/ ClipboardWrite

NextCommands ==
    \/ InvokeCommand
    \/ CommandSteps

SpecCommands == InitCommands /\ [][NextCommands]_vars

\* every promise a command awaits settles, and the event loop then resumes
\* the command
SpecCommandsLive == SpecCommands /\ WF_vars(CommandSteps)

NextHeading == FormatHeading

SpecHeading == InitHeading /\ [][NextHeading]_vars

NextDirective == ParseBegin \/ ParseLine \/ ParseReturn \/ GenerateDirective

SpecDirective == InitDirective /\ [][NextDirective]_vars

(***************************************************************************)
(* Properties                                                               *)
(***************************************************************************)

\* C1: the underline of a formatted heading has exactly as many characters as
\* the heading text; a level-1 heading with titleOverline enabled is preceded by
\* an overline identical to the underline, and no other heading has an overline.
C1_HeadingUnderline ==
    pc = "headingDone" =>
        LET out == Split(formatted, NL)
            hasOverline == heading.level = 1 /\ options.titleOverline
        IN  /\ Len(out) = IF hasOverline THEN 3 ELSE 2
            /\ out[Len(out) - 1] = heading.text
            /\ Len(out[Len(out)]) = Len(heading.text)
            /\ hasOverline => out[1] = out[3]

C1_Witness ==
    /\ pc = "headingDone"
    /\ heading.level = 1
    /\ options.titleOverline
    /\ Len(heading.text) = MaxTextLen
    /\ Len(Split(formatted, NL)) = 3

RECURSIVE FirstNonBlank(_, _)
\* index of the first line at or after k that is not blank, 0 if there is none
FirstNonBlank(ls, k) ==
    IF k > Len(ls) THEN 0
    ELSE IF Trim(ls[k]) # <<>> THEN k
    ELSE FirstNonBlank(ls, k + 1)

\* C7: the argument of a parsed directive comes from the first non-blank line
\* of the text and from no other line: it is defined exactly when that line is
\* bracketed, and is then the trimmed text between its brackets.
C7_ArgumentOnlyFirstLine ==
    pc \in {"parsed", "rendered"} =>
        LET k == FirstNonBlank(lines, 1)
        IN  IF k > 0 /\ isArgumentLine(Trim(lines[k]))
            THEN directive.argument =
                    [defined |-> TRUE, value |-> extractArgument(Trim(lines[k]))]
            ELSE ~directive.argument.defined

\* C8: once the body has started, a further loop iteration leaves the argument
\* and the option map as they are and appends its line, whatever its shape, to
\* the body; the loop then ends in the returned directive with that argument
\* and those options.
C8_BodyIsFinal ==
    [][(pc = "parseLoop" /\ inBody) =>
          /\ argument' = argument
          /\ dopts' = dopts
          /\ inBody'
          /\ IF i <= Len(lines)
             THEN bodyLines' = Append(bodyLines, lines[i]) /\ pc' = "parseLoop"
             ELSE /\ bodyLines' = bodyLines
                  /\ pc' = "parsed"
                  /\ directive'.argument = argument
                  /\ directive'.options = dopts]_vars

C8_Witness ==
    /\ pc = "parsed"
    /\ Len(bodyLines) = MaxLines
    /\ isArgumentLine(Trim(bodyLines[2]))
    /\ isOptionLine(Trim(bodyLines[3]))
    /\ Trim(bodyLines[4]) = <<>>
    /\ ~argument.defined
    /\ dopts = <<>>

\* The rendered declaration and option lines of the parsed directive
DeclarationLine ==
    <<".", ".", SP>> \o extractDirectiveName(styleName) \o <<":", ":">>
    \o (IF argument.defined /\ argument.value # <<>>
        THEN <<SP>> \o argument.value ELSE <<>>)

OptionLine(k) ==
    <<SP, SP, SP, ":">> \o dopts[k].name \o <<":">>
    \o (IF dopts[k].value # <<>> THEN <<SP>> \o dopts[k].value ELSE <<>>)

HeaderLinesRendered(out) ==
    /\ Len(out) >= 1 + Len(dopts)
    /\ out[1] = DeclarationLine
    /\ \A k \in 1..Len(dopts) : out[1 + k] = OptionLine(k)

\* C9 as stated: declaration line, one option line per option in insertion
\* order, and for a non-empty body one blank line followed by every body line
\* indented by 3 spaces.
C9_EveryBodyLineIndented ==
    pc = "rendered" =>
        LET out == Split(rendered, NL)
            n == Len(dopts)
            body == Split(directive.content, NL)
        IN  /\ HeaderLinesRendered(out)
            /\ IF directive.content = <<>>
               THEN Len(out) = 1 + n
               ELSE /\ Len(out) = 2 + n + Len(body)
                    /\ out[2 + n] = <<>>
                    /\ \A j \in 1..Len(body) :
                          out[2 + n + j] = <<SP, SP, SP>> \o body[j]

\* C9 amended: as C9, except that an empty line of the body is rendered as an
\* empty line; only the non-empty body lines are indented by 3 spaces.
C9_NonEmptyBodyLinesIndented ==
    pc = "rendered" =>
        LET out == Split(rendered, NL)
            n == Len(dopts)
            body == Split(directive.content, NL)
        IN  /\ HeaderLinesRendered(out)
            /\ IF directive.content = <<>>
               THEN Len(out) = 1 + n
               ELSE /\ Len(out) = 2 + n + Len(body)
                    /\ out[2 + n] = <<>>
                    /\ \A j \in 1..Len(body) :
                          out[2 + n + j] = IF body[j] = <<>> THEN <<>>
                                           ELSE <<SP, SP, SP>> \o body[j]

C9_Witness ==
    /\ pc = "rendered"
    /\ argument.defined /\ argument.value # <<>>
    /\ Len(dopts) = 2
    /\ directive.content # <<>>
    /\ Len(Split(rendered, NL)) = 5

(***************************************************************************)
(* Properties of the list reconstructor and the post-processor              *)
(***************************************************************************)
RECURSIVE Depths(_, _, _)
\* the nesting depths at which list, itself at depth d, holds an item of content c
Depths(list, c, d) ==
    UNION { (IF list.items[k].content = c THEN {d} ELSE {})
            \cup (IF list.items[k].nestedList = <<>> THEN {}
                  ELSE Depths(list.items[k].nestedList[1], c, d + 1)) :
            k \in 1..Len(list.items) }

RECURSIVE TypesOf(_, _)
\* the listType of every list that directly holds an item of content c
TypesOf(list, c) ==
    UNION { (IF list.items[k].content = c THEN {list.listType} ELSE {})
            \cup (IF list.items[k].nestedList = <<>> THEN {}
                  ELSE TypesOf(list.items[k].nestedList[1], c)) :
            k \in 1..Len(list.items) }

RECURSIVE LastItemDepth(_)
\* the depth of the deepest item on the 'last item, then its nested list' chain
LastItemDepth(list) ==
    IF Len(list.items) = 0 THEN 0 - 1
    ELSE LET lastItem == list.items[Len(list.items)]
         IN  IF lastItem.nestedList = <<>> THEN 0
             ELSE 1 + LastItemDepth(lastItem.nestedList[1])

RECURSIVE CarriesIndentLevel(_)
\* some item of the list, at any depth, has an indentLevel field
CarriesIndentLevel(list) ==
    \E k \in 1..Len(list.items) :
        \/ list.items[k].indentLevel # <<>>
        \/ /\ list.items[k].nestedList # <<>>
           /\ CarriesIndentLevel(list.items[k].nestedList[1])

\* the indent level and list type the parser gave the k-th element
IndentOf(k) == elements[k].items[1].indentLevel[1]
TypeOf(k) == elements[k].listType

SameTypeRun == \A k \in 1..Len(elements) : TypeOf(k) = TypeOf(1)

\* a list item as it is in the final tree
FinalItem(k, nested) ==
    [content |-> ItemContent(k), nestedList |-> nested, indentLevel |-> <<>>]

\* C4: a run of list paragraphs of one list type at indent levels [0,0,1,1,0]
\* becomes one root list of three depth-0 items, the second carrying a nested
\* list of exactly the two indent-1 items, all in input order; and whenever
\* the first indent is 0 and no indent exceeds the previous one by more than 1,
\* every item of such a run ends at the depth of its indent level.
C4_IndentDrivesNesting ==
    (pc = "postDone" /\ SameTypeRun) =>
        /\ [k \in 1..Len(elements) |-> IndentOf(k)] = <<0, 0, 1, 1, 0>> =>
              result = << [type |-> "list", listType |-> TypeOf(1),
                           items |-> << FinalItem(1, <<>>),
                                        FinalItem(2, << [type |-> "list",
                                                         listType |-> TypeOf(1),
                                                         items |-> << FinalItem(3, <<>>),
                                                                      FinalItem(4, <<>>) >>] >>),
                                        FinalItem(5, <<>>) >>] >>
        /\ (/\ IndentOf(1) = 0
            /\ \A k \in 2..Len(elements) : IndentOf(k) <= IndentOf(k - 1) + 1) =>
              /\ Len(result) = 1
              /\ \A k \in 1..Len(elements) :
                    Depths(result[1], ItemContent(k), 0) = {IndentOf(k)}

C4_Witness ==
    /\ pc = "postDone"
    /\ SameTypeRun
    /\ Len(elements) = 5
    /\ [k \in 1..5 |-> IndentOf(k)] = <<0, 0, 1, 1, 0>>
    /\ Len(result[1].items) = 3
    /\ Len(result[1].items[2].nestedList[1].items) = 2

\* an iteration of the post-processor is about to insert a list item of
\* indent level above 0 into the running list
InsertsDeeper ==
    /\ pc = "post"
    /\ pi <= Len(elements)
    /\ Len(result) > 0
    /\ result[Len(result)].type = "list"
    /\ IndentOf(pi) > 0

\* C5 as stated: an item of indent level n > 0 inserted into the running list
\* ends at nesting depth exactly n.
C5_DepthIsIndent ==
    [][InsertsDeeper =>
          Depths(result'[Len(result)], ItemContent(pi), 0) = {IndentOf(pi)}]_vars

\* C5 amended: the descent stops where the chain has no last item to nest
\* under, so the item ends at depth min(n, d + 1), d being the depth of the
\* deepest item of the chain; the list it ends in is the nested list found
\* there, or a new one of the item's type.
C5_DepthIsBoundedByChain ==
    [][InsertsDeeper =>
          LET root == result[Len(result)]
              d == LastItemDepth(root)
              n == IndentOf(pi)
              after == result'[Len(result)]
          IN  /\ Depths(after, ItemContent(pi), 0) = {Min(n, d + 1)}
              /\ n > d => TypesOf(after, ItemContent(pi)) = {TypeOf(pi)}
              /\ LastItemDepth(after) = Min(n, d + 1)]_vars

C5_Witness ==
    /\ pc = "postDone"
    /\ Len(elements) = 3
    /\ [k \in 1..3 |-> IndentOf(k)] = <<0, 2, 2>>
    /\ Depths(result[1], ItemContent(2), 0) = {1}
    /\ Depths(result[1], ItemContent(3), 0) = {2}

\* C6: when post-processing has returned, no list item of the final element
\* tree, at any depth, carries an indentLevel field.
C6_NoIndentLevelLeft ==
    pc = "postDone" =>
        \A k \in 1..Len(result) :
            result[k].type = "list" => ~CarriesIndentLevel(result[k])

C6_Witness ==
    /\ pc = "postDone"
    /\ Len(elements) = 3
    /\ \A k \in 1..3 : elements[k].type = "list"
    /\ elements[1].items[1].indentLevel = <<>>
    /\ elements[2].items[1].indentLevel = <<1>>
    /\ elements[3].items[1].indentLevel = <<0>>
    /\ Len(result) = 1
    /\ Depths(result[1], ItemContent(2), 0) = {1}

RECURSIVE DirectiveRuns(_, _)
\* style and joined bodies of every maximal run of consecutive same-style
\* directives of es, from index k on, in order
DirectiveRuns(es, k) ==
    IF k > Len(es) THEN <<>>
    ELSE IF es[k].type # "directive" THEN DirectiveRuns(es, k + 1)
    ELSE LET e == CHOOSE j \in k..Len(es) :
                    /\ \A m \in k..j : es[m].type = "directive"
                                       /\ es[m].style = es[k].style
                    /\ j < Len(es) => ~(es[j + 1].type = "directive"
                                        /\ es[j + 1].style = es[k].style)
         IN  << [style |-> es[k].style,
                 content |-> Join([m \in 1..(e - k + 1) |->
                                      es[k + m - 1].directive.content],
                                  <<NL, NL>>)] >>
             \o DirectiveRuns(es, e + 1)

\* style and content of the directives of es, in order
DirectivesOf(es) ==
    LET ds == SelectSeq(es, LAMBDA e : e.type = "directive")
    IN  [k \in 1..Len(ds) |-> [style |-> ds[k].style,
                               content |-> ds[k].directive.content]]

SeparatorsOf(ls) == SelectSeq(ls, LAMBDA l : Head(l) = "+")

\* C2: for a table of at least one row, every line of the grid table has the
\* same length; there is one separator before the first row and one after every
\* row, drawn with '=' after a header row and with '-' everywhere else.
C2_GridLinesAligned ==
    (pc = "tableDone" /\ Len(tableData.rows) > 0) =>
        LET gridLines == Split(grid, NL)
            separators == SeparatorsOf(gridLines)
            isHeader(r) == IsHeaderRow(tableData.rows, tableData.options.hasHeader, r)
        IN  /\ \A k \in 1..Len(gridLines) : Len(gridLines[k]) = Len(gridLines[1])
            /\ Len(separators) = Len(tableData.rows) + 1
            /\ gridLines[1] = separators[1]
            /\ gridLines[Len(gridLines)] = separators[Len(separators)]
            /\ \A r \in 0..Len(tableData.rows) :
                  LET ch == IF r > 0 /\ isHeader(r) THEN "=" ELSE "-"
                      sep == separators[r + 1]
                  IN  /\ \A j \in 1..Len(sep) : sep[j] \in {"+", ch}
                      /\ Len(columnWidths) > 0 => \E j \in 1..Len(sep) : sep[j] = ch

C2_Witness ==
    /\ pc = "tableDone"
    /\ Len(tableData.rows) = 2
    /\ tableData.options.hasHeader
    /\ ~tableData.rows[1].isHeader /\ ~tableData.rows[2].isHeader
    /\ Len(tableData.rows[1].cells) = 2 /\ Len(tableData.rows[2].cells) = 2
    /\ tableData.rows[2].cells[1].content = WrappingText
    /\ tableData.rows[2].cells[2].content = LongWord
    /\ Len(Split(grid, NL)) = 6

\* the longest line of the cells of column c after word-wrapping at the
\* column's width, and the longest as split at hard line breaks only
LongestWrappedLine(c) ==
    LET cs == ColumnContents(tableData.rows, c)
    IN  MaxOf([k \in 1..Len(cs) |->
                  MaxOf(Lengths(wrapText(cs[k], columnWidths[c])), 0)], 0)

LongestRawLine(c) ==
    LET cs == ColumnContents(tableData.rows, c)
    IN  MaxOf([k \in 1..Len(cs) |-> MaxOf(Lengths(Split(cs[k], NL)), 0)], 0)

\* C3 as stated: the width of a column is the longest line of its cells after
\* word-wrapping, raised to 3 and limited to 40.
C3_WidthFromWrappedLines ==
    pc = "tableDone" =>
        \A c \in 1..Len(columnWidths) :
            columnWidths[c] = Min(MaxWidth, Max(MinWidth, LongestWrappedLine(c)))

\* C3 amended: the width of a column is the longest line of its cells as
\* split at hard line breaks only, before any word-wrapping, raised to 3 and
\* limited to 40; there is one width per column of the widest row.
C3_WidthFromRawLines ==
    pc = "tableDone" =>
        /\ Len(columnWidths) =
              MaxOf([r \in 1..Len(tableData.rows) |-> Len(tableData.rows[r].cells)], 0)
        /\ \A c \in 1..Len(columnWidths) :
              /\ columnWidths[c] = Min(MaxWidth, Max(MinWidth, LongestRawLine(c)))
              /\ columnWidths[c] >= MinWidth
              /\ columnWidths[c] <= MaxWidth

C3_Witness ==
    /\ pc = "tableDone"
    /\ Len(tableData.rows) = 2
    /\ Len(columnWidths) = 2
    /\ Len(tableData.rows[1].cells) = 2
    /\ tableData.rows[1].cells[1].content = WrappingText
    /\ columnWidths[1] = MaxWidth
    /\ LongestWrappedLine(1) < MaxWidth
    /\ LongestRawLine(2) < MinWidth
    /\ columnWidths[2] = MinWidth

(***************************************************************************)
(* Properties of caption handling in postProcessElements                    *)
(***************************************************************************)
\* the numbers and texts of the captions of the form 'Table N: T'
CaptionNumbers == { <<"1">>, <<"2", ".", "1">> }
CaptionTexts == { <<"S">>, <<"U">> }
TableCaptionForm(text, N, T) == text = <<"T", "a", "b", "l", "e", SP>> \o N \o <<":", SP>> \o T

\* the iteration of postProcessElements on a table that a paragraph
\* 'Table N: T' precedes in the parsed sequence
TableAfterCaption(N, T) ==
    /\ PostIterate
    /\ pi > 1
    /\ elements[pi].type = "table"
    /\ elements[pi - 1].type = "paragraph"
    /\ TableCaptionForm(elements[pi - 1].content, N, T)

\* C11: when a paragraph 'Table N: T' immediately precedes a table in the
\* parsed sequence, post-processing gives the table tableNumber N and caption
\* T and takes the paragraph out of the result.
C11_TableTakesCaption ==
    [][\A N \in CaptionNumbers, T \in CaptionTexts :
          TableAfterCaption(N, T) =>
              /\ Len(result) > 0
              /\ result[Len(result)] = elements[pi - 1]
              /\ Len(result') = Len(result)
              /\ SubSeq(result', 1, Len(result) - 1) = SubSeq(result, 1, Len(result) - 1)
              /\ result'[Len(result)].type = "table"
              /\ result'[Len(result)].data.options.tableNumber = N
              /\ result'[Len(result)].data.options.caption = T]_vars

\* a figure, then a caption-styled paragraph 'Table N: T', then a table: the
\* paragraph is gone and the table has neither number nor caption
C11_CaptionLost ==
    /\ pc = "postDone"
    /\ Len(elements) = 3
    /\ elements[1].type = "figure"
    /\ elements[2].type = "paragraph"
    /\ TableCaptionForm(elements[2].content, <<"2", ".", "1">>, <<"U">>)
    /\ elements[3].type = "table"
    /\ Len(result) = 2
    /\ result[2].type = "table"
    /\ result[2].data.options.tableNumber = <<>>
    /\ result[2].data.options.caption = <<>>

\* the number of elements parsed from the first j blocks
ElementIndex(j) == Cardinality({m \in 1..j : parseElement(blocks, m) # <<>>})

\* the block that the element at index e was parsed from
BlockIndex(e) ==
    CHOOSE j \in 1..Len(blocks) : parseElement(blocks, j) # <<>> /\ ElementIndex(j) = e

\* the figure at index f of elements took its caption from the paragraph at
\* index p
MergedIntoFigure(f, p) ==
    /\ elements[f].type = "figure"
    /\ elements[p].type = "paragraph"
    /\ blocks[BlockIndex(f)].kind = "imagePara"
    /\ LET c == findNearbyCaption(blocks, BlockIndex(f))
       IN  c.found /\ c.index = BlockIndex(p)

\* the text of a caption paragraph as it is merged: the text after the label
\* and number, or else the whole trimmed text
CaptionTextOf(para) ==
    LET t == Trim(para.content)
        parsed == parseCaption(t)
    IN  IF parsed.matched THEN parsed.text ELSE t

\* C12: caption ownership transfers exactly. In every iteration of
\* postProcessElements: a paragraph right after a figure is left out of the
\* result exactly when that figure took its caption from it; a paragraph right
\* before a figure stays in the result exactly when the figure did not take
\* its caption from it; a paragraph right before a table is taken out of the
\* result exactly when the table's caption is this iteration's merge of the
\* paragraph's text.
C12_CaptionOwnership ==
    [][(pc = "post" /\ pc' = "post" /\ pi > 1 /\ pi <= Len(elements)
          /\ Len(result) > 0 /\ result[Len(result)] = elements[pi - 1]) =>
        LET n == Len(result)
            current == elements[pi]
            prev == elements[pi - 1]
        IN  /\ (current.type = "paragraph" /\ prev.type = "figure") =>
                   ((result' = result) <=> MergedIntoFigure(pi - 1, pi))
            /\ (current.type = "figure" /\ prev.type = "paragraph") =>
                   ((Len(result') > n /\ result'[n] = prev) <=> ~MergedIntoFigure(pi, pi - 1))
            /\ (current.type = "table" /\ prev.type = "paragraph") =>
                   ((Len(result') = n) <=>
                       result'[Len(result')].data.options.caption = CaptionTextOf(prev))]_vars

\* a caption both kept and attached: the paragraph 'Table 1: S' before an
\* image paragraph is in the final sequence, and the figure has its text
C12_KeptAndAttached ==
    /\ pc = "postDone"
    /\ Len(blocks) = 2
    /\ blocks[2].kind = "imagePara"
    /\ Len(result) = 2
    /\ result[1].type = "paragraph"
    /\ result[2].type = "figure"
    /\ result[2].options.caption # <<>>
    /\ result[2].options.caption = CaptionTextOf(result[1])

\* C13: parseWordHtml, post-processing included, never throws: no run of it
\* ends in an exception, whatever the blocks are.
C13_NeverThrows == pc # "postThrew"

\* a list element without items makes the post-processing pass throw
C13_EmptyListThrows ==
    /\ pc = "postThrew"
    /\ pi <= Len(elements)
    /\ elements[pi].type = "list"
    /\ elements[pi].items = <<>>
    /\ \E k \in 1..Len(blocks) : blocks[k].kind = "list" /\ blocks[k].items = <<>>

\* the underline characters of the documentation's heading table, levels 1..6
DocumentedHeadingChars == <<"=", "=", "-", "~", "^", "\"">>

\* C20: a heading of level 1..6 is underlined with the character documented
\* for its level ('=', '=', '-', '~', '^', '"'), and only level 1 has an
\* overline.
C20_DocumentedUnderline ==
    pc = "headingDone" =>
        LET out == Split(formatted, NL)
            underline == out[Len(out)]
        IN  /\ \A k \in 1..Len(underline) :
                  underline[k] = DocumentedHeadingChars[heading.level]
            /\ heading.level > 1 => Len(out) = 2
            /\ (heading.level = 1 /\ options.titleOverline) =>
                  (Len(out) = 3 /\ out[1] = underline)

\* a level-2 heading underlined with '-'
C20_Level2Dash ==
    /\ pc = "headingDone"
    /\ heading.level = 2
    /\ Len(heading.text) = MaxTextLen
    /\ Split(formatted, NL) = <<heading.text, Repeat("-", MaxTextLen)>>

\* the option lines of a directive text: the lines that start with the
\* indentation and a colon
EmittedOptionLines(text) ==
    SelectSeq(Split(text, NL), LAMBDA l : StartsWith(l, INDENT \o <<":">>))

\* the option name of an option line: the text between its two colons
OptionNameOf(line) ==
    LET rest == SubSeq(line, Len(INDENT) + 2, Len(line))
        e == CHOOSE k \in 1..Len(rest) : rest[k] = ":" /\ \A j \in 1..(k - 1) : rest[j] # ":"
    IN  SubSeq(rest, 1, e - 1)

OptionNamesOf(text) ==
    LET ls == EmittedOptionLines(text)
    IN  [k \in 1..Len(ls) |-> OptionNameOf(ls[k])]

\* the names among order, in that order, of the options populated in o
RECURSIVE PopulatedNames(_, _)
PopulatedNames(order, populated) ==
    IF order = <<>> THEN <<>>
    ELSE (IF Head(order) \in populated THEN <<Head(order)>> ELSE <<>>)
         \o PopulatedNames(Tail(order), populated)

\* the documented option order of each directive
ImageOptionOrder == <<<<"a", "l", "t">>, <<"h", "e", "i", "g", "h", "t">>, <<"w", "i", "d", "t", "h">>, <<"s", "c", "a", "l", "e">>, <<"a", "l", "i", "g", "n">>,
                      <<"t", "a", "r", "g", "e", "t">>, <<"c", "l", "a", "s", "s">>, <<"n", "a", "m", "e">>, <<"l", "o", "a", "d", "i", "n", "g">>>>
TableOptionOrder == <<<<"a", "l", "i", "g", "n">>, <<"w", "i", "d", "t", "h">>, <<"w", "i", "d", "t", "h", "s">>, <<"c", "l", "a", "s", "s">>, <<"n", "a", "m", "e">>>>
ContentsOptionOrder == <<<<"d", "e", "p", "t", "h">>, <<"l", "o", "c", "a", "l">>, <<"b", "a", "c", "k", "l", "i", "n", "k", "s">>, <<"c", "l", "a", "s", "s">>>>
FigureOptionOrder == <<<<"a", "l", "t">>, <<"h", "e", "i", "g", "h", "t">>, <<"w", "i", "d", "t", "h">>, <<"s", "c", "a", "l", "e">>, <<"a", "l", "i", "g", "n">>,
                       <<"t", "a", "r", "g", "e", "t">>, <<"f", "i", "g", "w", "i", "d", "t", "h">>, <<"f", "i", "g", "c", "l", "a", "s", "s">>, <<"n", "a", "m", "e">>,
                       <<"c", "l", "a", "s", "s">>, <<"l", "o", "a", "d", "i", "n", "g">>>>

\* the image options populated in o
PopulatedImageOptions(o) ==
    {n \in {<<"a", "l", "t">>, <<"h", "e", "i", "g", "h", "t">>, <<"w", "i", "d", "t", "h">>, <<"s", "c", "a", "l", "e">>, <<"a", "l", "i", "g", "n">>, <<"t", "a", "r", "g", "e", "t">>,
            <<"c", "l", "a", "s", "s">>, <<"n", "a", "m", "e">>, <<"l", "o", "a", "d", "i", "n", "g">>} :
        \/ n = <<"a", "l", "t">> /\ o.alt # <<>>
        \/ n = <<"h", "e", "i", "g", "h", "t">> /\ o.height # <<>>
        \/ n = <<"w", "i", "d", "t", "h">> /\ o.width # <<>>
        \/ n = <<"s", "c", "a", "l", "e">> /\ o.scale # <<>>
        \/ n = <<"a", "l", "i", "g", "n">> /\ o.align # <<>>
        \/ n = <<"t", "a", "r", "g", "e", "t">> /\ o.target # <<>>
        \/ n = <<"c", "l", "a", "s", "s">> /\ o.class # <<>>
        \/ n = <<"n", "a", "m", "e">> /\ o.name # <<>>
        \/ n = <<"l", "o", "a", "d", "i", "n", "g">> /\ o.loading # <<>>}

PopulatedFigureOptions(o) ==
    PopulatedImageOptions(o)
    \cup {n \in {<<"f", "i", "g", "w", "i", "d", "t", "h">>, <<"f", "i", "g", "c", "l", "a", "s", "s">>, <<"n", "a", "m", "e">>} :
            \/ n = <<"f", "i", "g", "w", "i", "d", "t", "h">> /\ o.figwidth # <<>>
            \/ n = <<"f", "i", "g", "c", "l", "a", "s", "s">> /\ o.figclass # <<>>
            \/ n = <<"n", "a", "m", "e">> /\ o.figname # <<>>}

PopulatedTableOptions(o) ==
    {n \in {<<"a", "l", "i", "g", "n">>, <<"w", "i", "d", "t", "h">>, <<"w", "i", "d", "t", "h", "s">>, <<"c", "l", "a", "s", "s">>, <<"n", "a", "m", "e">>} :
        \/ n = <<"a", "l", "i", "g", "n">> /\ o.align # <<>>
        \/ n = <<"w", "i", "d", "t", "h">> /\ o.width # <<>>
        \/ n = <<"w", "i", "d", "t", "h", "s">> /\ o.widths.defined /\ (o.widths.isArray \/ o.widths.text # <<>>)
        \/ n = <<"c", "l", "a", "s", "s">> /\ o.class # <<>>
        \/ n = <<"n", "a", "m", "e">> /\ o.name # <<>>}

PopulatedContentsOptions(o) ==
    {n \in {<<"d", "e", "p", "t", "h">>, <<"l", "o", "c", "a", "l">>, <<"b", "a", "c", "k", "l", "i", "n", "k", "s">>, <<"c", "l", "a", "s", "s">>} :
        \/ n = <<"d", "e", "p", "t", "h">> /\ o.depth # <<>> /\ o.depth[1] > 0
        \/ n = <<"l", "o", "c", "a", "l">> /\ o.local
        \/ n = <<"b", "a", "c", "k", "l", "i", "n", "k", "s">> /\ o.backlinks # <<>>
        \/ n = <<"c", "l", "a", "s", "s">> /\ o.class # <<>>}

\* C17: the text a directive generator returns has exactly one option line
\* for every populated option of the element, in the directive's documented
\* order; a figure has a line for every image option that an image has.
C17_OneLinePerOption ==
    pc = "elementDone" =>
        LET names == OptionNamesOf(elemText)
        IN  CASE elem.type = "image" ->
                    names = PopulatedNames(ImageOptionOrder, PopulatedImageOptions(elem.options))
              [] elem.type = "figure" ->
                    names = PopulatedNames(FigureOptionOrder, PopulatedFigureOptions(elem.options))
              [] elem.type = "table" ->
                    names = PopulatedNames(TableOptionOrder, PopulatedTableOptions(elem.data.options))
              [] elem.type = "toc" ->
                    names = PopulatedNames(ContentsOptionOrder, PopulatedContentsOptions(elem.options))

\* a figure with the loading option set, rendered without a loading line
C17_FigureDropsLoading ==
    /\ pc = "elementDone"
    /\ elem.type = "figure"
    /\ elem.options.loading = <<"l", "a", "z", "y">>
    /\ PopulatedFigureOptions(elem.options) = {<<"l", "o", "a", "d", "i", "n", "g">>}
    /\ elemText = <<".", ".", SP, "f", "i", "g", "u", "r", "e", ":", ":", SP, "u">>

(***************************************************************************)
(* C16: the text produced by formatDocument is exactly the non-empty        *)
(* formatted blocks, each trimmed, in element order, separated by exactly   *)
(* one blank line: no blank line before the first block, after the last     *)
(* block, or doubled where an empty block was skipped.                      *)
(***************************************************************************)
RECURSIVE TrimmedBlocks(_, _, _)
\* the formatted elements from k on, trimmed, without the empty ones
TrimmedBlocks(els, opts, k) ==
    IF k > Len(els) THEN <<>>
    ELSE LET block == Trim(formatElement(els[k], opts))
         IN  (IF block # <<>> THEN <<block>> ELSE <<>>)
             \o TrimmedBlocks(els, opts, k + 1)

\* the step in which the parsed elements are formatted, nothing prepended
FormatsPlainDocument ==
    /\ pc = "postDone" /\ pc' # "postDone"
    /\ ~copts.addGeneratedComment
    /\ ~(copts.includeMetadata /\ hasMetadata(metadata))

C16_BlocksOneBlankLineApart ==
    [][FormatsPlainDocument =>
         conversion'.rst = Join(TrimmedBlocks(result, options, 1), <<NL, NL>>)]_vars

\* a document that starts with a heading without text is returned with a
\* blank line before its first block
C16_LeadingBlankLine ==
    /\ pc = "returned"
    /\ Len(result) = 2
    /\ result[1].type = "heading" /\ result[1].text = <<>>
    /\ result[2].type = "paragraph"
    /\ ~copts.addGeneratedComment /\ ~copts.includeMetadata
    /\ conversion.rst = <<NL>> \o result[2].content

(***************************************************************************)
(* C14: convertToRst never raises to its caller: it always returns a result *)
(* with a warnings list, and it returns the empty-result sentinel (empty    *)
(* text, no images, exactly one warning) only when the whole parse failed.  *)
(***************************************************************************)
\* the call has returned to its caller
Returned == pc = "returned"

\* parseWordHtml threw: the post-processing loop stopped inside the elements
ParseFailed == pi <= Len(elements)

\* the empty-result sentinel
IsSentinel(res) == res.rst = <<>> /\ res.images = <<>> /\ Len(res.warnings) = 1

C14_SentinelOnlyOnParseFailure ==
    /\ pc \in {"parse", "post", "postThrew", "postDone", "resolve", "returned"}
    /\ Returned =>
          /\ DOMAIN conversion = {"rst", "images", "warnings"}
          /\ conversion.warnings \in Seq(Seq(STRING))
          /\ IsSentinel(conversion) => ParseFailed

\* a document whose list has no items is answered with the sentinel
C14_SentinelReturned ==
    /\ Returned
    /\ ParseFailed
    /\ IsSentinel(conversion)
    /\ StartsWith(conversion.warnings[1], <<"H", "T", "M", "L", SP, "p", "a", "r", "s", "i", "n", "g", SP, "e", "r", "r", "o", "r", ":", SP>>)

(***************************************************************************)
(* C15: for every image whose payload is missing (an image reference        *)
(* returned with empty base64Data) the conversion records a warning string  *)
(* in the result's warnings and still completes, returning that image with  *)
(* the empty payload.                                                       *)
(***************************************************************************)
\* the images of the result that have no payload
MissingPayloads(res) ==
    {k \in 1..Len(res.images) : res.images[k].base64Data = <<>>}

\* a warning of the result names the file of the image
WarnedAbout(res, image) ==
    \E w \in 1..Len(res.warnings) : EndsWith(res.warnings[w], image.filename)

C15_MissingPayloadWarned ==
    (Returned /\ ~ParseFailed) =>
        /\ conversion.images = images
        /\ \A k \in MissingPayloads(conversion) : WarnedAbout(conversion, conversion.images[k])

\* convertToRst returns an image without payload and no warning
C15_SilentMissingPayload ==
    /\ Returned
    /\ api = "convertToRst"
    /\ MissingPayloads(conversion) # {}
    /\ conversion.warnings = <<>>

(***************************************************************************)
(* C18: each block is classified by the first matching rule in the fixed    *)
(* order TOC indicator, directive style, heading indicator, table,          *)
(* figure/image, blockquote, list paragraph, default paragraph, and by no   *)
(* later rule: a block with a directive style and a heading tag becomes a   *)
(* CustomDirective, a list paragraph that contains an image becomes an      *)
(* Image or Figure.  A list element (UL, OL) is counted with the list       *)
(* paragraphs, a caption paragraph with the default paragraphs.             *)
(***************************************************************************)
\* the rules of the documented order a node matches
MatchesRule(n, rule) ==
    CASE rule = "toc" -> isTocElement(n)
      [] rule = "directive" ->
            extractWordStyle(n) # <<>> /\ isRstDirectiveStyle(extractWordStyle(n))
      [] rule = "heading" -> detectHeadingLevel(n) > 0
      [] rule = "table" -> n.tag = "TABLE"
      [] rule = "figureImage" -> n.tag = "FIGURE" \/ n.imgs > 0
      [] rule = "blockquote" ->
            n.tag = "BLOCKQUOTE" \/ Includes(ToLower(n.className), <<"q", "u", "o", "t", "e">>)
      [] rule = "listParagraph" -> isWordListParagraph(n) \/ n.tag \in {"UL", "OL"}
      [] OTHER -> TRUE

DocumentedOrder ==
    <<"toc", "directive", "heading", "table", "figureImage", "blockquote",
      "listParagraph", "paragraph">>

\* the first rule of the documented order that the node matches
FirstDocumentedRule(n) ==
    DocumentedOrder[FirstIndex(Len(DocumentedOrder),
                               LAMBDA k : MatchesRule(n, DocumentedOrder[k]))]

\* the documented rule a branch of parseElement belongs to
DocumentedRuleOf(branch) ==
    CASE branch \in {"figure", "image"} -> "figureImage"
      [] branch \in {"list", "listParagraph"} -> "listParagraph"
      [] branch \in {"caption", "paragraph"} -> "paragraph"
      [] OTHER -> branch

C18_FirstDocumentedRuleWins ==
    pc = "nodeDone" => DocumentedRuleOf(kind.rule) = FirstDocumentedRule(node)

\* a list element that holds an image is parsed as a list
C18_ListBeforeImage ==
    /\ pc = "nodeDone"
    /\ node.tag = "UL" /\ node.imgs = 1
    /\ kind.rule = "list" /\ kind.type = "list"

(***************************************************************************)
(* C19: a table is treated as a layout table, replaced by one Image element *)
(* per embedded image with everything else in it discarded, only if it has  *)
(* no grid-styling class, zero cell padding and zero cell spacing, and      *)
(* contains only images; any other table is a content table and keeps its   *)
(* cell text.                                                               *)
(***************************************************************************)
\* the documented layout heuristic
DocumentedLayoutTable(table) ==
    /\ ~Includes(table.className, <<"M", "s", "o", "T", "a", "b", "l", "e", "G", "r", "i", "d">>)
    /\ table.cellpadding = <<"0">>
    /\ table.cellspacing = <<"0">>
    /\ table.imgs > 0
    /\ ~table.hasText

C19_LayoutOnlyIfDocumented ==
    (pc = "nodeDone" /\ kind.rule = "table") =>
        /\ kind.type = "image" => (DocumentedLayoutTable(node) /\ kind.count = node.imgs)
        /\ ~DocumentedLayoutTable(node) => (kind.type = "table" /\ kind.count = 1)

\* a table with text, an image and only the cell padding zero is unwrapped
\* into its image
C19_TextDiscarded ==
    /\ pc = "nodeDone"
    /\ kind.rule = "table"
    /\ node.cellpadding = <<"0">> /\ node.cellspacing = <<>>
    /\ node.hasText /\ node.imgs = 1
    /\ kind.type = "image" /\ kind.count = 1

(***************************************************************************)
(* C21: in the document text produced by formatDocument every non-empty     *)
(* line of a block-quote paragraph, including its first line, begins with   *)
(* the configured indent (3 spaces by default).                             *)
(***************************************************************************)
\* the block quotes among the formatted elements
BlockQuotes ==
    {k \in 1..Len(result) :
        /\ result[k].type = "paragraph"
        /\ "isBlockQuote" \in DOMAIN result[k]
        /\ result[k].isBlockQuote}

\* the lines of text, each non-empty one behind the indent
IndentedLines(text, spaces) ==
    LET ls == Split(text, NL)
    IN  [k \in 1..Len(ls) |-> IF ls[k] = <<>> THEN <<>> ELSE Repeat(SP, spaces) \o ls[k]]

\* the lines ls are consecutive whole lines of text
HasLines(text, ls) ==
    Includes(<<NL>> \o text \o <<NL>>, <<NL>> \o Join(ls, <<NL>>) \o <<NL>>)

C21_QuoteLinesIndented ==
    (Returned /\ ~ParseFailed) =>
        \A k \in BlockQuotes :
            HasLines(conversion.rst, IndentedLines(result[k].content, options.indentSize))

\* a document that is one block quote of two lines: its first line is
\* returned without indent
C21_FirstLineUnindented ==
    /\ Returned
    /\ Len(result) = 1 /\ BlockQuotes = {1}
    /\ ~copts.addGeneratedComment /\ ~copts.includeMetadata
    /\ conversion.rst = <<"q", NL>> \o Repeat(SP, options.indentSize) \o <<"r">>

(***************************************************************************)
(* C22: directive-style detection is case-sensitive: a block is converted   *)
(* to a custom directive only if its style name starts with the exact       *)
(* lowercase prefix 'rst_'; a differently cased name such as 'rst_Note' or  *)
(* 'RST_note' does not produce a directive.                                 *)
(***************************************************************************)
\* the style name is all lower case
IsLowerCase(style) == style = ToLower(style)

C22_DirectiveOnlyForLowercaseStyle ==
    (pc = "nodeDone" /\ kind.type = "directive") =>
        /\ StartsWith(extractWordStyle(node), RST_STYLE_PREFIX)
        /\ IsLowerCase(extractWordStyle(node))

\* a block with the style RST_note is converted to a directive
C22_UppercasePrefixAccepted ==
    /\ pc = "nodeDone"
    /\ extractWordStyle(node) = <<"R", "S", "T", "_", "n", "o", "t", "e">>
    /\ kind.type = "directive"

(***************************************************************************)
(* C23: a line of the form 'Name::' is converted to a field with that name  *)
(* and the empty string as its value, never undefined and never an ordinary *)
(* paragraph, and the result is the same whether or not a tab follows the   *)
(* '::'.                                                                    *)
(***************************************************************************)
\* the paragraphs of the parsed document whose content is a field line
FieldLineParagraphs ==
    {k \in 1..Len(result) :
        /\ result[k].type = "paragraph"
        /\ parseFieldListLine(result[k].content).matched}

C23_FieldLineIsField ==
    (Returned /\ ~ParseFailed) =>
        /\ FieldLineParagraphs = {}
        /\ \A k \in 1..Len(blocks) :
              (blocks[k].kind = "paragraph" /\ parseFieldListLine(blocks[k].text).matched) =>
                  /\ parseFieldListLine(blocks[k].text).value = <<>>
                  /\ parseFieldListLine(blocks[k].text \o <<TAB>>)
                        = parseFieldListLine(blocks[k].text)

\* the line 'N::' is returned as an ordinary paragraph
C23_FieldLineIsParagraph ==
    /\ Returned
    /\ Len(result) = 1
    /\ FieldLineParagraphs = {1}
    /\ ~copts.addGeneratedComment /\ ~copts.includeMetadata
    /\ conversion.rst = <<"N", ":", ":">>

(***************************************************************************)
(* C24: converting an input that contains no blocks yields an empty element *)
(* sequence, an empty image list and no warnings, and is not reported as an *)
(* error.                                                                   *)
(***************************************************************************)
C24_EmptyInputEmptyResult ==
    (Returned /\ blocks = <<>>) =>
        /\ result = <<>>
        /\ conversion.images = <<>>
        /\ conversion.warnings = <<>>
        /\ ~ParseFailed

\* the asynchronous conversion of a document without blocks has returned
C24_EmptyInputReturned ==
    /\ Returned
    /\ blocks = <<>>
    /\ api = "convertToRstAsync"
    /\ result = <<>>
    /\ conversion.warnings = <<>>

(***************************************************************************)
(* C25: no list item is lost in post-processing: every item of every list   *)
(* element produced by the parser, including each item of a multi-item list *)
(* that directly follows another list, appears exactly once in the final    *)
(* element tree.                                                            *)
(***************************************************************************)
RECURSIVE ItemContentsOf(_)
\* the contents of the items of a list and of its nested lists, in document
\* order
ItemContentsOf(list) ==
    LET of(item) == <<item.content>>
                    \o (IF item.nestedList = <<>> THEN <<>>
                        ELSE ItemContentsOf(item.nestedList[1]))
        from[k \in 1..(Len(list.items) + 1)] ==
            IF k > Len(list.items) THEN <<>> ELSE of(list.items[k]) \o from[k + 1]
    IN  from[1]

RECURSIVE AllItemContents(_, _)
\* the contents of the items of all list elements from k on
AllItemContents(els, k) ==
    IF k > Len(els) THEN <<>>
    ELSE (IF els[k].type = "list" THEN ItemContentsOf(els[k]) ELSE <<>>)
         \o AllItemContents(els, k + 1)

\* how often c occurs in the sequence s
CountOf(c, s) == Cardinality({k \in 1..Len(s) : s[k] = c})

C25_NoItemLost ==
    pc = "postDone" =>
        LET parsed == AllItemContents(elements, 1)
            final == AllItemContents(result, 1)
        IN  \A k \in 1..Len(parsed) : CountOf(parsed[k], final) = CountOf(parsed[k], parsed)

\* a list of two items that follows a list paragraph: its second item is
\* not in the final tree
C25_SecondItemLost ==
    /\ pc = "postDone"
    /\ Len(elements) = 2
    /\ elements[1].type = "list" /\ Len(elements[1].items) = 1
    /\ elements[2].type = "list" /\ Len(elements[2].items) = 2
    /\ Len(result) = 1
    /\ CountOf(elements[2].items[1].content, AllItemContents(result, 1)) = 1
    /\ CountOf(elements[2].items[2].content, AllItemContents(result, 1)) = 0

(***************************************************************************)
(* C26: grid rendering never drops cell text: every word of every cell,     *)
(* including a word longer than its column's width, appears in full and in  *)
(* its original order in the rendered table.                                *)
(***************************************************************************)
RECURSIVE WordsOfLines(_)
\* the words of a list of lines, in order
WordsOfLines(ls) ==
    IF Len(ls) = 0 THEN <<>>
    ELSE SelectSeq(Split(Head(ls), SP), LAMBDA w : w # <<>>) \o WordsOfLines(Tail(ls))

\* the words of a cell content
WordsOfCell(text) == WordsOfLines(Split(text, NL))

\* the lines of the rendered table between the r-th and the next separator
RenderedRowLines(r) ==
    LET gridLines == Split(grid, NL)
        seps == SelectSeq([k \in 1..Len(gridLines) |-> k],
                          LAMBDA k : Head(gridLines[k]) = "+")
    IN  SubSeq(gridLines, seps[r] + 1, seps[r + 1] - 1)

RECURSIVE ColumnStart(_)
\* the index in a content line at which the text of column c starts
ColumnStart(c) == IF c = 1 THEN 3 ELSE ColumnStart(c - 1) + columnWidths[c - 1] + 3

\* the text rendered for the cell of row r and column c, line by line
RenderedCellLines(r, c) ==
    LET ls == RenderedRowLines(r)
    IN  [k \in 1..Len(ls) |->
            SubSeq(ls[k], ColumnStart(c), ColumnStart(c) + columnWidths[c] - 1)]

C26_NoCellTextDropped ==
    pc = "tableDone" =>
        \A r \in 1..Len(tableData.rows) :
            \A c \in 1..Len(tableData.rows[r].cells) :
                WordsOfLines(RenderedCellLines(r, c))
                    = WordsOfCell(tableData.rows[r].cells[c].content)

\* a cell holding one word longer than the widest column is rendered as the
\* first 40 characters of the word
C26_LongWordCut ==
    /\ pc = "tableDone"
    /\ Len(tableData.rows) = 1
    /\ Len(tableData.rows[1].cells) = 1
    /\ tableData.rows[1].cells[1].content = LongWord
    /\ WordsOfLines(RenderedCellLines(1, 1)) = << SubSeq(LongWord, 1, MaxWidth) >>

(***************************************************************************)
(* C27: in the final list tree every item belongs to a list whose listType  *)
(* equals the type detected for that item: after any sequence of insertions *)
(* an ordered item is never stored in an unordered list, nor an unordered   *)
(* item in an ordered list.                                                 *)
(***************************************************************************)
C27_ItemInListOfItsType ==
    pc = "postDone" =>
        \A k \in 1..Len(elements) :
            \A j \in 1..Len(result) :
                TypesOf(result[j], ItemContent(k)) \subseteq {TypeOf(k)}

\* a bullet, a numbered paragraph and a second bullet one level deeper: the
\* second bullet is stored in the ordered list nested under the first
C27_BulletInOrderedList ==
    /\ pc = "postDone"
    /\ Len(elements) = 3
    /\ <<TypeOf(1), TypeOf(2), TypeOf(3)>> = <<"unordered", "ordered", "unordered">>
    /\ <<IndentOf(1), IndentOf(2), IndentOf(3)>> = <<0, 0, 1>>
    /\ Len(result) = 1
    /\ TypesOf(result[1], ItemContent(3)) = {"ordered"}

(***************************************************************************)
(* C28: within one converted document every figure receives a unique       *)
(* reference name: no two figures of the result have the same figname,     *)
(* whether it comes from the image id, from the image counter fallback or  *)
(* from a parsed caption number.                                           *)
(***************************************************************************)
Figures == { j \in 1..Len(result) : result[j].type = "figure" }

C28_FigureNamesUnique ==
    pc = "postDone" =>
        \A fa, fb \in Figures :
            result[fa].options.figname = result[fb].options.figname => fa = fb

\* two figures on external images, neither captioned: both are named by the
\* image counter, which an external image does not advance
C28_TwoFiguresNamedImg0 ==
    /\ pc = "postDone"
    /\ \E fa, fb \in Figures :
          /\ fa < fb
          /\ "imageData" \notin DOMAIN result[fa]
          /\ "imageData" \notin DOMAIN result[fb]
          /\ result[fa].options.figname = <<"i", "m", "g", "-", "0">>
          /\ result[fb].options.figname = <<"i", "m", "g", "-", "0">>

\* figures on embedded images without a caption are named by distinct ids
C28_EmbeddedFiguresDistinct ==
    pc = "postDone" =>
        \A fa, fb \in Figures :
            /\ "imageData" \in DOMAIN result[fa]
            /\ "imageData" \in DOMAIN result[fb]
            /\ result[fa].options.caption = <<>>
            /\ result[fb].options.caption = <<>>
            /\ result[fa].options.figname = result[fb].options.figname
            => fa = fb

(***************************************************************************)
(* C29: in the task pane isLoading is true exactly while one execution of  *)
(* handleRefresh is in progress: two refreshes never overlap (a refresh    *)
(* requested by button, retry or shortcut while one is running returns     *)
(* without effect) and isLoading is false again after every refresh ends,  *)
(* whether it succeeded or threw.                                          *)
(***************************************************************************)
Running == Cardinality({ k \in 1..Len(refreshes) : refreshes[k].pc \in InProgress })

LoadingIffOneRefresh == Running <= 1 /\ (isLoading <=> Running = 1)

RefusedWithoutEffect ==
    (Running > 0 /\ Len(refreshes') > Len(refreshes)) =>
        /\ refreshes'[Len(refreshes')].pc = "returned"
        /\ UNCHANGED <<isLoading, ui, pane, currentRst>>

EndClearsLoading ==
    \A k \in 1..Len(refreshes) :
        (refreshes[k].pc \in InProgress /\ refreshes'[k].pc \notin InProgress) => ~isLoading'

C29_LoadingWhileOneRefresh ==
    []LoadingIffOneRefresh /\ [][RefusedWithoutEffect /\ EndClearsLoading]_vars

\* a refresh that threw, then a refresh in progress and a shortcut refused
\* while it runs
C29_RefusedWhileRunning ==
    /\ Len(refreshes) = 3
    /\ refreshes[1].pc = "failed"
    /\ refreshes[2].pc \in InProgress
    /\ refreshes[3] = [source |-> "shortcut", pc |-> "returned"]
    /\ isLoading

(***************************************************************************)
(* C30: every invocation of the ribbon commands exportToRst and            *)
(* copyRstToClipboard eventually calls event.completed() exactly once: on  *)
(* the success path, on the empty-result path and on every failure path    *)
(* (document read, conversion, clipboard or export failure).               *)
(***************************************************************************)
CompletedAtMostOnce ==
    \A k \in 1..Len(invocations) : invocations[k].completed <= 1

CompletedOnce(k) == Len(invocations) >= k /\ invocations[k].completed = 1

C30_CompletedExactlyOnce ==
    /\ []CompletedAtMostOnce
    /\ \A k \in 1..MaxInvocations : (Len(invocations) >= k) ~> CompletedOnce(k)

\* one copyRstToClipboard of part_002 returned on an empty result and one
\* exportToRst failed: both called event.completed() once
C30_EmptyAndFailedCompleted ==
    /\ Len(invocations) = 2
    /\ invocations[1].command = "copyRstToClipboard"
    /\ invocations[1].path = "empty"
    /\ invocations[1].completed = 1
    /\ invocations[2].command = "exportToRst"
    /\ invocations[2].path = "failed"
    /\ invocations[2].completed = 1
====
